---- MODULE Spec2Model ----
(***************************************************************************)
(* tzbuildasset: the TrainzUtil protocol client (src/src/trainzutil.rs),   *)
(* the logger (src/src/log.rs) and the build orchestrator                  *)
(* (src/src/main.rs).                                                      *)
(*                                                                         *)
(* Text is a sequence of characters, each a one-character string; a        *)
(* character above U+00FF is written as its code point ("U+2028").  The    *)
(* bytes of a stdout or of a file are written as the characters they       *)
(* encode, and a byte that belongs to no UTF-8 text as "0xFF".  A u32      *)
(* is a record                                                             *)
(* [hi, lo] of two 16-bit limbs (value = hi * 65536 + lo), so that the     *)
(* full 32-bit range and its overflow are represented exactly.             *)
(***************************************************************************)
EXTENDS Integers, Sequences, FiniteSets, TLC

VARIABLES
    probe,          \* ParseSpec: the spawn result handed to execute() and what it returned
    pc,             \* position of main()/build(): start, locate, loop, install, commit, validate, done, panicked, returned
    mode,           \* LOGGER.mode, set by log::init
    install,        \* BuildArguments.install (cmd_install)
    show,           \* BuildArguments.show_config_path / show_kuid: config, kuid or path
    located,        \* the Vec<Asset> returned by locate_assets
    idx,            \* position of the for loop of build() in located (assets finished)
    asset_count,    \* build(): asset_count
    failed_count,   \* build(): failed_count
    stats,          \* LOGGER.stats: [errors, warnings]
    calls,          \* every call of log::log, in order: [tier, sev, text]
    printed,        \* the lines written to the program's stdout, in order
    trace,          \* every tool invocation, in order: [asset, cmd, arg, res]
    entered,        \* the assets build_asset was called for, in order
    outcomes,       \* the value each finished build_asset call returned, in order
    lastReply,      \* what the tool did at the latest invocation (a spawn result)
    clean,          \* every invocation so far exited with success and 0 Errors, 0 Warnings
    exitCode,       \* the process exit status, -1 while running
    recursive,      \* BuildArguments.recursive
    temp_path,      \* BuildArguments.temp_path: an Option of a path
    fs,             \* the file system
    temp_dir,       \* build_asset: temp_dir, an Option of the TempDir's path
    flag_version    \* Args.flag_version (--version)

vars == <<probe, pc, mode, install, show, located, idx, asset_count, failed_count,
          stats, calls, printed, trace, entered, outcomes, lastReply, clean, exitCode,
          recursive, temp_path, fs, temp_dir, flag_version>>

runVars == <<pc, mode, install, show, located, idx, asset_count, failed_count,
             stats, calls, printed, trace, entered, outcomes, lastReply, clean, exitCode,
             recursive, temp_path, fs, temp_dir, flag_version>>

\* the arguments of the run, which no step changes
argVars == <<mode, install, show, recursive, temp_path, flag_version>>

-----------------------------------------------------------------------------
(* Bounds *)

MaxAssets == 2          \* located assets per run
MaxBodyLines == 2       \* lines before the last line of a probed stdout

-----------------------------------------------------------------------------
(* Characters *)

LF == "\n"
CR == "\r"

\* a byte that is not UTF-8
XFF == "0xFF"

\* str::from_utf8 returns Ok
Utf8(text) == \A k \in 1..Len(text) : text[k] # XFF

VT   == ""             \* U+000B
NEL  == ""             \* U+0085
NBSP == " "             \* U+00A0

\* \s of the regex crate: the Unicode class White_Space
WhiteSpace ==
    {"\t", "\n", VT, "\f", "\r", " ", NEL, NBSP,
     "U+1680", "U+2000", "U+2001", "U+2002", "U+2003", "U+2004", "U+2005", "U+2006",
     "U+2007", "U+2008", "U+2009", "U+200A", "U+2028", "U+2029", "U+202F", "U+205F",
     "U+3000"}

\* the digits <u32 as FromStr> reads
AsciiDigit == {"0", "1", "2", "3", "4", "5", "6", "7", "8", "9"}

\* the decimal digits of the scripts other than ASCII: the characters of the
\* Unicode class Nd above U+0039, ten for each set of digits
OtherDigit ==
    {
     "U+0660", "U+0661", "U+0662", "U+0663", "U+0664", "U+0665", "U+0666", "U+0667", "U+0668", "U+0669",
     "U+06F0", "U+06F1", "U+06F2", "U+06F3", "U+06F4", "U+06F5", "U+06F6", "U+06F7", "U+06F8", "U+06F9",
     "U+07C0", "U+07C1", "U+07C2", "U+07C3", "U+07C4", "U+07C5", "U+07C6", "U+07C7", "U+07C8", "U+07C9",
     "U+0966", "U+0967", "U+0968", "U+0969", "U+096A", "U+096B", "U+096C", "U+096D", "U+096E", "U+096F",
     "U+09E6", "U+09E7", "U+09E8", "U+09E9", "U+09EA", "U+09EB", "U+09EC", "U+09ED", "U+09EE", "U+09EF",
     "U+0A66", "U+0A67", "U+0A68", "U+0A69", "U+0A6A", "U+0A6B", "U+0A6C", "U+0A6D", "U+0A6E", "U+0A6F",
     "U+0AE6", "U+0AE7", "U+0AE8", "U+0AE9", "U+0AEA", "U+0AEB", "U+0AEC", "U+0AED", "U+0AEE", "U+0AEF",
     "U+0B66", "U+0B67", "U+0B68", "U+0B69", "U+0B6A", "U+0B6B", "U+0B6C", "U+0B6D", "U+0B6E", "U+0B6F",
     "U+0BE6", "U+0BE7", "U+0BE8", "U+0BE9", "U+0BEA", "U+0BEB", "U+0BEC", "U+0BED", "U+0BEE", "U+0BEF",
     "U+0C66", "U+0C67", "U+0C68", "U+0C69", "U+0C6A", "U+0C6B", "U+0C6C", "U+0C6D", "U+0C6E", "U+0C6F",
     "U+0CE6", "U+0CE7", "U+0CE8", "U+0CE9", "U+0CEA", "U+0CEB", "U+0CEC", "U+0CED", "U+0CEE", "U+0CEF",
     "U+0D66", "U+0D67", "U+0D68", "U+0D69", "U+0D6A", "U+0D6B", "U+0D6C", "U+0D6D", "U+0D6E", "U+0D6F",
     "U+0DE6", "U+0DE7", "U+0DE8", "U+0DE9", "U+0DEA", "U+0DEB", "U+0DEC", "U+0DED", "U+0DEE", "U+0DEF",
     "U+0E50", "U+0E51", "U+0E52", "U+0E53", "U+0E54", "U+0E55", "U+0E56", "U+0E57", "U+0E58", "U+0E59",
     "U+0ED0", "U+0ED1", "U+0ED2", "U+0ED3", "U+0ED4", "U+0ED5", "U+0ED6", "U+0ED7", "U+0ED8", "U+0ED9",
     "U+0F20", "U+0F21", "U+0F22", "U+0F23", "U+0F24", "U+0F25", "U+0F26", "U+0F27", "U+0F28", "U+0F29",
     "U+1040", "U+1041", "U+1042", "U+1043", "U+1044", "U+1045", "U+1046", "U+1047", "U+1048", "U+1049",
     "U+1090", "U+1091", "U+1092", "U+1093", "U+1094", "U+1095", "U+1096", "U+1097", "U+1098", "U+1099",
     "U+17E0", "U+17E1", "U+17E2", "U+17E3", "U+17E4", "U+17E5", "U+17E6", "U+17E7", "U+17E8", "U+17E9",
     "U+1810", "U+1811", "U+1812", "U+1813", "U+1814", "U+1815", "U+1816", "U+1817", "U+1818", "U+1819",
     "U+1946", "U+1947", "U+1948", "U+1949", "U+194A", "U+194B", "U+194C", "U+194D", "U+194E", "U+194F",
     "U+19D0", "U+19D1", "U+19D2", "U+19D3", "U+19D4", "U+19D5", "U+19D6", "U+19D7", "U+19D8", "U+19D9",
     "U+1A80", "U+1A81", "U+1A82", "U+1A83", "U+1A84", "U+1A85", "U+1A86", "U+1A87", "U+1A88", "U+1A89",
     "U+1A90", "U+1A91", "U+1A92", "U+1A93", "U+1A94", "U+1A95", "U+1A96", "U+1A97", "U+1A98", "U+1A99",
     "U+1B50", "U+1B51", "U+1B52", "U+1B53", "U+1B54", "U+1B55", "U+1B56", "U+1B57", "U+1B58", "U+1B59",
     "U+1BB0", "U+1BB1", "U+1BB2", "U+1BB3", "U+1BB4", "U+1BB5", "U+1BB6", "U+1BB7", "U+1BB8", "U+1BB9",
     "U+1C40", "U+1C41", "U+1C42", "U+1C43", "U+1C44", "U+1C45", "U+1C46", "U+1C47", "U+1C48", "U+1C49",
     "U+1C50", "U+1C51", "U+1C52", "U+1C53", "U+1C54", "U+1C55", "U+1C56", "U+1C57", "U+1C58", "U+1C59",
     "U+A620", "U+A621", "U+A622", "U+A623", "U+A624", "U+A625", "U+A626", "U+A627", "U+A628", "U+A629",
     "U+A8D0", "U+A8D1", "U+A8D2", "U+A8D3", "U+A8D4", "U+A8D5", "U+A8D6", "U+A8D7", "U+A8D8", "U+A8D9",
     "U+A900", "U+A901", "U+A902", "U+A903", "U+A904", "U+A905", "U+A906", "U+A907", "U+A908", "U+A909",
     "U+A9D0", "U+A9D1", "U+A9D2", "U+A9D3", "U+A9D4", "U+A9D5", "U+A9D6", "U+A9D7", "U+A9D8", "U+A9D9",
     "U+A9F0", "U+A9F1", "U+A9F2", "U+A9F3", "U+A9F4", "U+A9F5", "U+A9F6", "U+A9F7", "U+A9F8", "U+A9F9",
     "U+AA50", "U+AA51", "U+AA52", "U+AA53", "U+AA54", "U+AA55", "U+AA56", "U+AA57", "U+AA58", "U+AA59",
     "U+ABF0", "U+ABF1", "U+ABF2", "U+ABF3", "U+ABF4", "U+ABF5", "U+ABF6", "U+ABF7", "U+ABF8", "U+ABF9",
     "U+FF10", "U+FF11", "U+FF12", "U+FF13", "U+FF14", "U+FF15", "U+FF16", "U+FF17", "U+FF18", "U+FF19",
     "U+104A0", "U+104A1", "U+104A2", "U+104A3", "U+104A4", "U+104A5", "U+104A6", "U+104A7", "U+104A8", "U+104A9",
     "U+10D30", "U+10D31", "U+10D32", "U+10D33", "U+10D34", "U+10D35", "U+10D36", "U+10D37", "U+10D38", "U+10D39",
     "U+10D40", "U+10D41", "U+10D42", "U+10D43", "U+10D44", "U+10D45", "U+10D46", "U+10D47", "U+10D48", "U+10D49",
     "U+11066", "U+11067", "U+11068", "U+11069", "U+1106A", "U+1106B", "U+1106C", "U+1106D", "U+1106E", "U+1106F",
     "U+110F0", "U+110F1", "U+110F2", "U+110F3", "U+110F4", "U+110F5", "U+110F6", "U+110F7", "U+110F8", "U+110F9",
     "U+11136", "U+11137", "U+11138", "U+11139", "U+1113A", "U+1113B", "U+1113C", "U+1113D", "U+1113E", "U+1113F",
     "U+111D0", "U+111D1", "U+111D2", "U+111D3", "U+111D4", "U+111D5", "U+111D6", "U+111D7", "U+111D8", "U+111D9",
     "U+112F0", "U+112F1", "U+112F2", "U+112F3", "U+112F4", "U+112F5", "U+112F6", "U+112F7", "U+112F8", "U+112F9",
     "U+11450", "U+11451", "U+11452", "U+11453", "U+11454", "U+11455", "U+11456", "U+11457", "U+11458", "U+11459",
     "U+114D0", "U+114D1", "U+114D2", "U+114D3", "U+114D4", "U+114D5", "U+114D6", "U+114D7", "U+114D8", "U+114D9",
     "U+11650", "U+11651", "U+11652", "U+11653", "U+11654", "U+11655", "U+11656", "U+11657", "U+11658", "U+11659",
     "U+116C0", "U+116C1", "U+116C2", "U+116C3", "U+116C4", "U+116C5", "U+116C6", "U+116C7", "U+116C8", "U+116C9",
     "U+116D0", "U+116D1", "U+116D2", "U+116D3", "U+116D4", "U+116D5", "U+116D6", "U+116D7", "U+116D8", "U+116D9",
     "U+116DA", "U+116DB", "U+116DC", "U+116DD", "U+116DE", "U+116DF", "U+116E0", "U+116E1", "U+116E2", "U+116E3",
     "U+11730", "U+11731", "U+11732", "U+11733", "U+11734", "U+11735", "U+11736", "U+11737", "U+11738", "U+11739",
     "U+118E0", "U+118E1", "U+118E2", "U+118E3", "U+118E4", "U+118E5", "U+118E6", "U+118E7", "U+118E8", "U+118E9",
     "U+11950", "U+11951", "U+11952", "U+11953", "U+11954", "U+11955", "U+11956", "U+11957", "U+11958", "U+11959",
     "U+11BF0", "U+11BF1", "U+11BF2", "U+11BF3", "U+11BF4", "U+11BF5", "U+11BF6", "U+11BF7", "U+11BF8", "U+11BF9",
     "U+11C50", "U+11C51", "U+11C52", "U+11C53", "U+11C54", "U+11C55", "U+11C56", "U+11C57", "U+11C58", "U+11C59",
     "U+11D50", "U+11D51", "U+11D52", "U+11D53", "U+11D54", "U+11D55", "U+11D56", "U+11D57", "U+11D58", "U+11D59",
     "U+11DA0", "U+11DA1", "U+11DA2", "U+11DA3", "U+11DA4", "U+11DA5", "U+11DA6", "U+11DA7", "U+11DA8", "U+11DA9",
     "U+11F50", "U+11F51", "U+11F52", "U+11F53", "U+11F54", "U+11F55", "U+11F56", "U+11F57", "U+11F58", "U+11F59",
     "U+16130", "U+16131", "U+16132", "U+16133", "U+16134", "U+16135", "U+16136", "U+16137", "U+16138", "U+16139",
     "U+16A60", "U+16A61", "U+16A62", "U+16A63", "U+16A64", "U+16A65", "U+16A66", "U+16A67", "U+16A68", "U+16A69",
     "U+16AC0", "U+16AC1", "U+16AC2", "U+16AC3", "U+16AC4", "U+16AC5", "U+16AC6", "U+16AC7", "U+16AC8", "U+16AC9",
     "U+16B50", "U+16B51", "U+16B52", "U+16B53", "U+16B54", "U+16B55", "U+16B56", "U+16B57", "U+16B58", "U+16B59",
     "U+16D70", "U+16D71", "U+16D72", "U+16D73", "U+16D74", "U+16D75", "U+16D76", "U+16D77", "U+16D78", "U+16D79",
     "U+1CCF0", "U+1CCF1", "U+1CCF2", "U+1CCF3", "U+1CCF4", "U+1CCF5", "U+1CCF6", "U+1CCF7", "U+1CCF8", "U+1CCF9",
     "U+1D7CE", "U+1D7CF", "U+1D7D0", "U+1D7D1", "U+1D7D2", "U+1D7D3", "U+1D7D4", "U+1D7D5", "U+1D7D6", "U+1D7D7",
     "U+1D7D8", "U+1D7D9", "U+1D7DA", "U+1D7DB", "U+1D7DC", "U+1D7DD", "U+1D7DE", "U+1D7DF", "U+1D7E0", "U+1D7E1",
     "U+1D7E2", "U+1D7E3", "U+1D7E4", "U+1D7E5", "U+1D7E6", "U+1D7E7", "U+1D7E8", "U+1D7E9", "U+1D7EA", "U+1D7EB",
     "U+1D7EC", "U+1D7ED", "U+1D7EE", "U+1D7EF", "U+1D7F0", "U+1D7F1", "U+1D7F2", "U+1D7F3", "U+1D7F4", "U+1D7F5",
     "U+1D7F6", "U+1D7F7", "U+1D7F8", "U+1D7F9", "U+1D7FA", "U+1D7FB", "U+1D7FC", "U+1D7FD", "U+1D7FE", "U+1D7FF",
     "U+1E140", "U+1E141", "U+1E142", "U+1E143", "U+1E144", "U+1E145", "U+1E146", "U+1E147", "U+1E148", "U+1E149",
     "U+1E2F0", "U+1E2F1", "U+1E2F2", "U+1E2F3", "U+1E2F4", "U+1E2F5", "U+1E2F6", "U+1E2F7", "U+1E2F8", "U+1E2F9",
     "U+1E4F0", "U+1E4F1", "U+1E4F2", "U+1E4F3", "U+1E4F4", "U+1E4F5", "U+1E4F6", "U+1E4F7", "U+1E4F8", "U+1E4F9",
     "U+1E5F1", "U+1E5F2", "U+1E5F3", "U+1E5F4", "U+1E5F5", "U+1E5F6", "U+1E5F7", "U+1E5F8", "U+1E5F9", "U+1E5FA",
     "U+1E950", "U+1E951", "U+1E952", "U+1E953", "U+1E954", "U+1E955", "U+1E956", "U+1E957", "U+1E958", "U+1E959",
     "U+1FBF0", "U+1FBF1", "U+1FBF2", "U+1FBF3", "U+1FBF4", "U+1FBF5", "U+1FBF6", "U+1FBF7", "U+1FBF8", "U+1FBF9"}

\* \d of the regex crate: the Unicode class Nd
Digit == AsciiDigit \cup OtherDigit

DigitVal(c) ==
    CASE c = "0" -> 0 [] c = "1" -> 1 [] c = "2" -> 2 [] c = "3" -> 3
      [] c = "4" -> 4 [] c = "5" -> 5 [] c = "6" -> 6 [] c = "7" -> 7
      [] c = "8" -> 8 [] c = "9" -> 9

UpperCase == <<"A","B","C","D","E","F","G","H","I","J","K","L","M",
               "N","O","P","Q","R","S","T","U","V","W","X","Y","Z">>
LowerCase == <<"a","b","c","d","e","f","g","h","i","j","k","l","m",
               "n","o","p","q","r","s","t","u","v","w","x","y","z">>

\* simple case folding of the (?i) flag, as far as it reaches the letters of
\* the patterns: A-Z, and KELVIN SIGN and LATIN SMALL LETTER LONG S, which
\* fold to k and s
Fold(c) ==
    IF \E i \in 1..Len(UpperCase) : UpperCase[i] = c
    THEN LowerCase[CHOOSE i \in 1..Len(UpperCase) : UpperCase[i] = c]
    ELSE IF c = "U+212A" THEN "k"
    ELSE IF c = "U+017F" THEN "s"
    ELSE c

Front(s) == SubSeq(s, 1, Len(s) - 1)

Range(s) == {s[k] : k \in DOMAIN s}

RECURSIVE Flatten(_)
Flatten(ss) == IF ss = <<>> THEN <<>> ELSE Head(ss) \o Flatten(Tail(ss))

-----------------------------------------------------------------------------
(* u32 and its FromStr *)

U32Zero == [hi |-> 0, lo |-> 0]

\* <u32 as FromStr>::from_str: a character that is no ASCII digit is an Err;
\* each step is checked_mul(10) followed by checked_add(digit); overflow is
\* an Err.
RECURSIVE from_str_acc(_, _, _)
from_str_acc(s, i, acc) ==
    IF i > Len(s) THEN [ok |-> TRUE, val |-> acc]
    ELSE IF s[i] \notin AsciiDigit THEN [ok |-> FALSE]
    ELSE LET t  == acc.lo * 10 + DigitVal(s[i])
             lo == t % 65536
             hi == acc.hi * 10 + (t \div 65536)
         IN  IF hi > 65535 THEN [ok |-> FALSE]
             ELSE from_str_acc(s, i + 1, [hi |-> hi, lo |-> lo])

from_str(s) == from_str_acc(s, 1, U32Zero)

-----------------------------------------------------------------------------
(* std::io::BufRead::lines over a Cursor *)

\* read_line has read the bytes cur of a line: the item of Lines is the text,
\* or the Err of a line that is not UTF-8
LineItem(cur) == IF Utf8(cur) THEN [ok |-> TRUE, line |-> cur] ELSE [ok |-> FALSE]

\* The items of Lines: read_line reads up to and including LF; the item has
\* the LF removed and, when an LF was removed, a CR before it removed as well.
RECURSIVE ReadLines(_, _, _)
ReadLines(s, i, cur) ==
    IF i > Len(s) THEN (IF cur = <<>> THEN <<>> ELSE <<LineItem(cur)>>)
    ELSE IF s[i] = LF
         THEN <<LineItem(IF cur # <<>> /\ cur[Len(cur)] = CR THEN Front(cur) ELSE cur)>>
              \o ReadLines(s, i + 1, <<>>)
         ELSE ReadLines(s, i + 1, Append(cur, s[i]))

BufLines(stdout) == ReadLines(stdout, 1, <<>>)

-----------------------------------------------------------------------------
(* TZUTL_RESULT_MATCHER *)

\* first index >= i of s that is past the end or not in class C
RECURSIVE Skip(_, _, _)
Skip(s, i, C) == IF i <= Len(s) /\ s[i] \in C THEN Skip(s, i + 1, C) ELSE i

\* the (case-folded) literal lit stands at index i of s
LitAt(s, i, lit) ==
    /\ i + Len(lit) - 1 <= Len(s)
    /\ \A k \in 1..Len(lit) : Fold(s[i + k - 1]) = lit[k]

NoMatch == [ok |-> FALSE]

\* The pattern tried at start index i:
\*   OK \s+ \( \s* (\d+) \s+ Errors \s* , \s* (\d+) \s+ Warnings \s* \)
\* Consecutive pieces have disjoint first characters, so the greedy scan is
\* the only way the pattern can match from i.
ResultMatchAt(s, i) ==
    LET a1 == i + 2                           \* after OK
        a2 == Skip(s, a1, WhiteSpace)         \* after \s+
        a3 == Skip(s, a2 + 1, WhiteSpace)     \* after \( \s*
        a4 == Skip(s, a3, Digit)              \* after errors
        a5 == Skip(s, a4, WhiteSpace)         \* after \s+
        a6 == Skip(s, a5 + 6, WhiteSpace)     \* after Errors \s*
        a7 == Skip(s, a6 + 1, WhiteSpace)     \* after , \s*
        a8 == Skip(s, a7, Digit)              \* after warnings
        a9 == Skip(s, a8, WhiteSpace)         \* after \s+
        a10 == Skip(s, a9 + 8, WhiteSpace)    \* after Warnings \s*
    IN  IF /\ LitAt(s, i, <<"o","k">>)
           /\ a2 > a1
           /\ LitAt(s, a2, <<"(">>)
           /\ a4 > a3
           /\ a5 > a4
           /\ LitAt(s, a5, <<"e","r","r","o","r","s">>)
           /\ LitAt(s, a6, <<",">>)
           /\ a8 > a7
           /\ a9 > a8
           /\ LitAt(s, a9, <<"w","a","r","n","i","n","g","s">>)
           /\ LitAt(s, a10, <<")">>)
        THEN [ok |-> TRUE,
              errors   |-> SubSeq(s, a3, a4 - 1),
              warnings |-> SubSeq(s, a7, a8 - 1)]
        ELSE NoMatch

\* Regex::captures: the leftmost match anywhere in the text (the pattern has
\* no anchors)
TZUTL_RESULT_MATCHER(s) ==
    LET starts == {i \in 1..Len(s) : ResultMatchAt(s, i).ok}
    IN  IF starts = {} THEN NoMatch
        ELSE ResultMatchAt(s, CHOOSE i \in starts : \A j \in starts : i <= j)

-----------------------------------------------------------------------------
(* Output::from_stdout and execute *)

Panic == [tag |-> "panic"]

\* (variant: the loop of lines 45-49 left out)
StripCR_None(lines) == lines

\* lines 45-49: one trailing CR popped from every line
StripCR(lines) ==
    [k \in 1..Len(lines) |->
        IF lines[k] # <<>> /\ lines[k][Len(lines[k])] = CR
        THEN Front(lines[k]) ELSE lines[k]]

\* lines 54-58: the Output, or the panic of an unwrap() of a count that does
\* not fit a u32
OutputOf(lines, e, w) ==
    IF ~e.ok \/ ~w.ok THEN Panic
    ELSE [tag |-> "output", lines |-> lines, errors |-> e.val, warnings |-> w.val]

\* (variant: counts default to zero when the last line does not match)
OutputOfCaptures_ZeroFill(lines, results) ==
    IF ~results.ok
    THEN [tag |-> "output", lines |-> lines, errors |-> U32Zero, warnings |-> U32Zero]
    ELSE OutputOf(lines, from_str(results.errors), from_str(results.warnings))

\* line 52: the captures of the last line, or the panic of unwrap() on None
OutputOfCaptures(lines, results) ==
    IF ~results.ok THEN Panic
    ELSE OutputOf(lines, from_str(results.errors), from_str(results.warnings))

\* line 51: the last line is popped, or unwrap() panics when there is none
OutputOfLines(lines) ==
    IF lines = <<>> THEN Panic
    ELSE OutputOfCaptures(Front(lines), TZUTL_RESULT_MATCHER(lines[Len(lines)]))

\* line 44: every item is unwrapped and the lines are collected, or unwrap()
\* panics on an Err
OutputOfItems(items) ==
    IF \E k \in 1..Len(items) : ~items[k].ok THEN Panic
    ELSE OutputOfLines(StripCR([k \in 1..Len(items) |-> items[k].line]))

from_stdout(stdout) == OutputOfItems(BufLines(stdout))

\* What Command::output() can give: an io::Error of kind NotFound, an
\* io::Error of another kind, or the exit status and captured stdout.
SpawnNotFound == [kind |-> "notfound"]
SpawnIoError  == [kind |-> "ioerror"]
Exited(success, stdout) == [kind |-> "exited", success |-> success, stdout |-> stdout]

\* (variant: every io::Error becomes Unknown)
FromIoError_Unknown(spawn) == [tag |-> "err", err |-> "Unknown"]

\* impl From<io::Error> for Error
FromIoError(spawn) ==
    IF spawn.kind = "notfound" THEN [tag |-> "err", err |-> "NotFound"]
    ELSE [tag |-> "err", err |-> "Unknown"]

\* execute lines 119-123
ResultOf(success, output) ==
    IF output.tag = "panic" THEN Panic
    ELSE IF success THEN [tag |-> "ok", output |-> output]
    ELSE [tag |-> "err", err |-> "Failure", output |-> output]

execute(spawn) ==
    IF spawn.kind # "exited" THEN FromIoError(spawn)     \* try!(..output())
    ELSE ResultOf(spawn.success, from_stdout(spawn.stdout))

-----------------------------------------------------------------------------
(* Inputs of ParseSpec: captured stdouts, built from their parts *)

tErrors   == <<"E","r","r","o","r","s">>
tWarnings == <<"W","a","r","n","i","n","g","s">>

\* a count as written by the tool: its digits, whether it fits a u32, its value
Count(digits, fits, hi, lo) ==
    [digits |-> digits, fits |-> fits, val |-> [hi |-> hi, lo |-> lo]]

N0    == Count(<<"0">>, TRUE, 0, 0)
N007  == Count(<<"0","0","7">>, TRUE, 0, 7)
N12   == Count(<<"1","2">>, TRUE, 0, 12)
N70k  == Count(<<"7","0","0","0","0">>, TRUE, 1, 4464)
NMax  == Count(<<"4","2","9","4","9","6","7","2","9","5">>, TRUE, 65535, 65535)
NOver == Count(<<"4","2","9","4","9","6","7","2","9","6">>, FALSE, 0, 0)
\* a digit of another script: \d matches it, from_str does not read it
NArabic == Count(<<"U+0663">>, FALSE, 0, 0)

ErrorCounts   == {N0, N007, N70k, NMax, NOver, NArabic}
WarningCounts == {N0, N12, NOver}

\* the keyword and the whitespace between it and the parenthesis
Keywords == {
    [ok |-> <<"O","K">>, ws |-> <<" ">>],
    [ok |-> <<"o","k">>, ws |-> <<"\t"," ">>],
    [ok |-> <<"o","U+212A">>, ws |-> <<VT, NBSP, "U+2028">>],
    [ok |-> <<"O","K">>, ws |-> <<>>],
    [ok |-> <<"O","k">>, ws |-> <<>>] }

\* a summary line of the grammar
\*   OK \s* ( \s* e \s+ Errors \s* , \s* w \s+ Warnings \s* )
\* padded: with whitespace at every optional place
SummaryLine(kw, e, w, padded) ==
    IF padded
    THEN kw.ok \o kw.ws \o <<"("," ">> \o e.digits \o <<" "," ">> \o tErrors
         \o <<" ",",","\t">> \o w.digits \o <<"\t">> \o tWarnings \o <<" ",")">>
    ELSE kw.ok \o kw.ws \o <<"(">> \o e.digits \o <<" ">> \o tErrors
         \o <<","," ">> \o w.digits \o <<" ">> \o tWarnings \o <<")">>

Summaries ==
    [cat : {"summary"}, kw : Keywords, e : ErrorCounts, w : WarningCounts,
     padded : BOOLEAN]

\* last lines that are not a summary line, by the way they fall short
Malformed == {
    [cat |-> "keyword", text |-> <<"K","O"," ","(","0"," ">> \o tErrors
                                 \o <<","," ","0"," ">> \o tWarnings \o <<")">>],
    [cat |-> "keyword", text |-> <<"O","K"," ","(","0"," ","F","a","i","l","s",
                                   ","," ","0"," ">> \o tWarnings \o <<")">>],
    [cat |-> "keyword", text |-> <<"O","K"," ","(","0"," ">> \o tErrors
                                 \o <<","," ","0"," ","W","a","r","n",")">>],
    [cat |-> "nonnumeric", text |-> <<"O","K"," ","(","x"," ">> \o tErrors
                                    \o <<","," ","0"," ">> \o tWarnings \o <<")">>],
    [cat |-> "nonnumeric", text |-> <<"O","K"," ","("," ">> \o tErrors
                                    \o <<","," ","0"," ">> \o tWarnings \o <<")">>],
    [cat |-> "nonnumeric", text |-> <<"O","K"," ","(","1"," ">> \o tErrors
                                    \o <<","," ","-","1"," ">> \o tWarnings \o <<")">>],
    [cat |-> "blank", text |-> <<>>],
    [cat |-> "other", text |-> <<"d","o","n","e">>],
    [cat |-> "other", text |-> <<"O","K"," ","(","0"," ">> \o tErrors
                               \o <<","," ","0"," ">> \o tWarnings],
    \* a summary inside a longer line
    [cat |-> "embedded", e |-> N007, w |-> N12,
     text |-> <<"x">> \o SummaryLine([ok |-> <<"O","K">>, ws |-> <<" ">>], N007, N12, FALSE)],
    [cat |-> "embedded", e |-> N0, w |-> N0,
     text |-> SummaryLine([ok |-> <<"O","K">>, ws |-> <<" ">>], N0, N0, FALSE)
              \o <<" ","d","o","n","e">>],
    \* two summaries in one line
    [cat |-> "embedded", e |-> N007, w |-> N12,
     text |-> SummaryLine([ok |-> <<"O","K">>, ws |-> <<" ">>], N007, N12, FALSE)
              \o <<" ">> \o SummaryLine([ok |-> <<"O","K">>, ws |-> <<" ">>], N12, N0, FALSE)],
    \* a summary in a line that is not UTF-8
    [cat |-> "binary",
     text |-> SummaryLine([ok |-> <<"O","K">>, ws |-> <<" ">>], N0, N0, FALSE) \o <<XFF>>] }

LastLines == Summaries \cup Malformed

\* the last lines of the stdouts with more than one line before the last
FewLastLines == {
    [cat |-> "summary", kw |-> [ok |-> <<"O","K">>, ws |-> <<" ">>], e |-> N007, w |-> N12,
     padded |-> FALSE],
    [cat |-> "summary", kw |-> [ok |-> <<"O","K">>, ws |-> <<>>], e |-> N0, w |-> N0,
     padded |-> FALSE],
    [cat |-> "other", text |-> <<"d","o","n","e">>] }

LastText(l) == IF l.cat = "summary" THEN SummaryLine(l.kw, l.e, l.w, l.padded) ELSE l.text

\* a line before the last: its text and its terminator, LF or CR LF (a text
\* ending in CR is followed by CR LF, so that the split into text and
\* terminator is unique)
BodyLine(text, eol) == [text |-> text, eol |-> eol]

BodyLines == {
    BodyLine(<<>>, <<LF>>),
    BodyLine(<<"a">>, <<LF>>),
    BodyLine(<<"a">>, <<CR, LF>>),
    BodyLine(<<" ","b",CR,"c"," ">>, <<LF>>),
    BodyLine(<<"a",CR>>, <<CR, LF>>),
    BodyLine(<<"a",CR,CR>>, <<CR, LF>>),
    BodyLine(<<"a",XFF>>, <<LF>>) }

RECURSIVE SeqsUpTo(_, _)
SeqsUpTo(S, n) ==
    IF n = 0 THEN {<<>>}
    ELSE LET shorter == SeqsUpTo(S, n - 1)
         IN  shorter \cup {Append(q, x) : q \in shorter, x \in S}

\* the terminator of the last line: none, LF or CR LF
LastEols == {<<>>, <<LF>>, <<CR, LF>>}

\* a captured stdout: the empty one, or body lines and a last line; up to
\* one body line with every last line, more with a few of them
Stdouts ==
    {[empty |-> TRUE]}
    \cup [empty : {FALSE}, body : SeqsUpTo(BodyLines, 1), last : LastLines, eol : LastEols]
    \cup [empty : {FALSE}, body : SeqsUpTo(BodyLines, MaxBodyLines) \ SeqsUpTo(BodyLines, 1),
          last : FewLastLines, eol : LastEols]

Render(g) ==
    IF g.empty THEN <<>>
    ELSE Flatten([k \in 1..Len(g.body) |-> g.body[k].text \o g.body[k].eol])
         \o LastText(g.last) \o g.eol

-----------------------------------------------------------------------------
(* ParseSpec: execute() applied to every spawn result over Stdouts *)

NoProbe == [state |-> "none"]

SpawnsOf(g) ==
    {SpawnNotFound, SpawnIoError}
    \cup {Exited(ok, Render(g)) : ok \in BOOLEAN}

ProbeExecute ==
    /\ probe.state = "input"
    /\ \E spawn \in SpawnsOf(probe.gen) :
          probe' = [state |-> "done", gen |-> probe.gen, spawn |-> spawn,
                    result |-> execute(spawn)]
    /\ UNCHANGED runVars

-----------------------------------------------------------------------------
(* TZUTIL_OUTPUT_MATCHER *)

DiagPrefix == {"-", "+", "!", ";"}

\* `> \s* : \s* (.+) \r? $` tried with the closing bracket at index g: the
\* greedy \s* after the colon gives back its last character when nothing
\* else is left for the message; the greedy .+ then runs to the end of the
\* line (a dot matches CR), so the optional \r matches nothing.
DiagTailAt(s, g) ==
    LET c == Skip(s, g + 1, WhiteSpace)        \* the colon
        m == Skip(s, c + 1, WhiteSpace)        \* after : \s*
    IN  IF g <= Len(s) /\ s[g] = ">" /\ c <= Len(s) /\ s[c] = ":" /\ c < Len(s)
        THEN [ok |-> TRUE,
              message |-> IF m <= Len(s) THEN SubSeq(s, m, Len(s))
                          ELSE SubSeq(s, Len(s), Len(s))]
        ELSE NoMatch

\* The pattern tried at start index i:
\*   ([-+!;]) \s* < (.*?) > \s* : \s* (.+) \r? $
\* the lazy kuid ends at the first closing bracket from which the rest matches
DiagMatchAt(s, i) ==
    LET o  == Skip(s, i + 1, WhiteSpace)       \* the opening bracket
        gs == {g \in (o + 1)..Len(s) : DiagTailAt(s, g).ok}
    IN  IF s[i] \in DiagPrefix /\ o <= Len(s) /\ s[o] = "<" /\ gs # {}
        THEN LET g == CHOOSE x \in gs : \A y \in gs : x <= y
             IN  [ok |-> TRUE, prefix |-> s[i],
                  kuid |-> SubSeq(s, o + 1, g - 1),
                  message |-> DiagTailAt(s, g).message]
        ELSE NoMatch

\* Regex::captures: the leftmost match; the pattern is not anchored at the
\* start of the line
TZUTIL_OUTPUT_MATCHER(s) ==
    LET starts == {i \in 1..Len(s) : DiagMatchAt(s, i).ok}
    IN  IF starts = {} THEN NoMatch
        ELSE DiagMatchAt(s, CHOOSE i \in starts : \A j \in starts : i <= j)

-----------------------------------------------------------------------------
(* log.rs *)

Modes == {"Silent", "Normal", "Verbose"}

\* (variant: a mode accepts its own tier and every tier below it)
accepts_Levels(self, other) ==
    CASE self = "Silent"  -> other = "Silent"
      [] self = "Normal"  -> other = "Silent" \/ other = "Normal"
      [] self = "Verbose" -> TRUE

\* Mode::accepts
accepts(self, other) ==
    CASE self = "Silent"  -> other = "Silent"
      [] self = "Normal"  -> other = "Normal"
      [] self = "Verbose" -> other = "Normal" \/ other = "Verbose"

SeverityLabel(sev) ==
    CASE sev = "Error" -> "ERROR " [] sev = "Warn" -> "WARN  " [] sev = "Info" -> "INFO  "

\* the statistics after a call of the given severity
Counted(st, sev) ==
    [errors   |-> st.errors + (IF sev = "Error" THEN 1 ELSE 0),
     warnings |-> st.warnings + (IF sev = "Warn" THEN 1 ELSE 0)]

\* (variant: only the calls that are printed are counted)
log_CountsPrinted(L, tier, sev, text) ==
    [stats   |-> IF accepts(mode, tier) THEN Counted(L.stats, sev) ELSE L.stats,
     calls   |-> Append(L.calls, [tier |-> tier, sev |-> sev, text |-> text]),
     printed |-> IF accepts(mode, tier)
                 THEN Append(L.printed,
                             IF mode = "Silent" THEN text
                             ELSE <<SeverityLabel(sev)>> \o text)
                 ELSE L.printed]

\* log::log on the logger state L = [stats, calls, printed]; a text is a
\* sequence of pieces (format literals and characters)
log(L, tier, sev, text) ==
    [stats   |-> Counted(L.stats, sev),
     calls   |-> Append(L.calls, [tier |-> tier, sev |-> sev, text |-> text]),
     printed |-> IF accepts(mode, tier)
                 THEN Append(L.printed,
                             IF mode = "Silent" THEN text
                             ELSE <<SeverityLabel(sev)>> \o text)
                 ELSE L.printed]

\* log_silent!, log_normal!, log_verbose!: the calls, as values
log_silent(sev, text)  == [tier |-> "Silent", sev |-> sev, text |-> text]
log_normal(sev, text)  == [tier |-> "Normal", sev |-> sev, text |-> text]
log_verbose(sev, text) == [tier |-> "Verbose", sev |-> sev, text |-> text]

\* the logger after a sequence of calls
RECURSIVE LogAll(_, _)
LogAll(L, cs) ==
    IF cs = <<>> THEN L
    ELSE LogAll(log(L, Head(cs).tier, Head(cs).sev, Head(cs).text), Tail(cs))

Logger == [stats |-> stats, calls |-> calls, printed |-> printed]

\* the calls cs are made
SetLogger(L) ==
    /\ stats' = L.stats
    /\ calls' = L.calls
    /\ printed' = L.printed

Logs(cs) == SetLogger(LogAll(Logger, cs))

-----------------------------------------------------------------------------
(* Display of integers *)

DigitChar(d) == <<"0","1","2","3","4","5","6","7","8","9">>[d + 1]

RECURSIVE ToDigits(_)
ToDigits(n) == IF n < 10 THEN <<DigitChar(n)>>
               ELSE ToDigits(n \div 10) \o <<DigitChar(n % 10)>>

-----------------------------------------------------------------------------
(* KUID_MATCHER and USERNAME_MATCHER *)

\* the index after the literal at i, or 0 when s does not continue with it
Lit(s, i, lit) == IF i > 0 /\ LitAt(s, i, lit) THEN i + Len(lit) ELSE 0

\* the index after a greedy, non-empty run of class C at i, or 0
Plus(s, i, C) == IF i > 0 /\ Skip(s, i, C) > i THEN Skip(s, i, C) ELSE 0

\* the index after an optional literal at i
Opt(s, i, lit) == IF i > 0 /\ LitAt(s, i, lit) THEN i + Len(lit) ELSE i

\* ^ under (?m): the start of the text or the position after a line feed
AtLineStart(s, i) == i = 1 \/ s[i - 1] = LF

\* kuid2? : \d+ : \d+ from i: the index after it, or 0
KuidTwoParts(s, i) ==
    Plus(s, Lit(s, Plus(s, Lit(s, Opt(s, Lit(s, i, <<"k","u","i","d">>), <<"2">>), <<":">>),
                        Digit), <<":">>), Digit)

\* ( : \d+ )? > from b, the end of the two-part identity: the index of the
\* closing bracket, or 0; the group is tried first
KuidClose(s, b) ==
    IF Lit(s, Plus(s, Lit(s, b, <<":">>), Digit), <<">">>) > 0
    THEN Plus(s, Lit(s, b, <<":">>), Digit)
    ELSE IF Lit(s, b, <<">">>) > 0 THEN b ELSE 0

\* the index of the opening bracket: after kuid \s+
KuidOpen(s, i) == Plus(s, Lit(s, i, <<"k","u","i","d">>), WhiteSpace)

\* The pattern tried at start index i:
\*   ^kuid \s+ < (kuid2? : \d+ : \d+ ( : \d+ )?) >
\* from .. to is the whole match, kuid the capture
KuidMatchAt(s, i) ==
    IF /\ AtLineStart(s, i)
       /\ KuidClose(s, KuidTwoParts(s, Lit(s, KuidOpen(s, i), <<"<">>))) > 0
    THEN [ok |-> TRUE, from |-> i,
          to |-> KuidClose(s, KuidTwoParts(s, Lit(s, KuidOpen(s, i), <<"<">>))),
          kuid |-> SubSeq(s, KuidOpen(s, i) + 1,
                          KuidClose(s, KuidTwoParts(s, Lit(s, KuidOpen(s, i), <<"<">>))) - 1)]
    ELSE NoMatch

\* Regex::captures: the leftmost match
KUID_MATCHER(s) ==
    LET starts == {i \in 1..Len(s) : KuidMatchAt(s, i).ok}
    IN  IF starts = {} THEN NoMatch
        ELSE KuidMatchAt(s, CHOOSE i \in starts : \A j \in starts : i <= j)

\* the index of the opening quote: after username \s+
NameOpen(s, i) == Plus(s, Lit(s, i, <<"u","s","e","r","n","a","m","e">>), WhiteSpace)

\* The pattern tried at start index i:
\*   ^username \s+ " ([^"]*)
\* the name runs to the next quote or to the end of the text
NameMatchAt(s, i) ==
    IF AtLineStart(s, i) /\ Lit(s, NameOpen(s, i), <<"\"">>) > 0
    THEN [ok |-> TRUE,
          name |-> SubSeq(s, NameOpen(s, i) + 1,
                          Skip(s, NameOpen(s, i) + 1, {c \in Range(s) : c # "\""}) - 1)]
    ELSE NoMatch

USERNAME_MATCHER(s) ==
    LET starts == {i \in 1..Len(s) : NameMatchAt(s, i).ok}
    IN  IF starts = {} THEN NoMatch
        ELSE NameMatchAt(s, CHOOSE i \in starts : \A j \in starts : i <= j)

KUID_DUMMY_TAG == <<"k","u","i","d"," "," ","<","k","u","i","d",":","2","9","8","4","6","9",":","9","9","9","9","9","9",">">>

\* Regex::replace: the leftmost match is replaced by the replacement text,
\* which holds no $ reference; a text without a match stays as it is
KuidReplaced(text, m) ==
    IF m.ok THEN SubSeq(text, 1, m.from - 1) \o KUID_DUMMY_TAG
                 \o SubSeq(text, m.to + 1, Len(text))
    ELSE text

-----------------------------------------------------------------------------
(* The file system: a function from paths to nodes.  A path is a sequence   *)
(* of names; a directory node holds the names of its entries in the order   *)
(* read_dir yields them, a file node holds its text.                         *)

DirNode(kids) == [kind |-> "dir", kids |-> kids]
FileNode(text) == [kind |-> "file", text |-> text]

IsDir(f, p) == p \in DOMAIN f /\ f[p].kind = "dir"
IsFile(f, p) == p \in DOMAIN f /\ f[p].kind = "file"

\* Path::join with one name
Join(p, name) == Append(p, name)

\* env::current_dir(): the directory the program runs in, an absolute path
Cwd == <<"cwd">>

\* q is p or lies beneath p
Under(p, q) == Len(q) >= Len(p) /\ SubSeq(q, 1, Len(p)) = p

\* the entry p is put into the file system: its node is (over)written and
\* its name is listed in its parent directory
WithEntry(f, p, node) ==
    LET parent == Front(p)
        name   == p[Len(p)]
    IN  [q \in DOMAIN f \cup {p} |->
            IF q = p THEN node
            ELSE IF q = parent /\ name \notin Range(f[q].kids)
                 THEN DirNode(Append(f[q].kids, name))
                 ELSE f[q]]

\* fs::remove_dir_all: the directory p and everything beneath it is removed;
\* a path that does not exist is an error that leaves everything as it is
remove_dir_all(f, p) ==
    IF ~IsDir(f, p) THEN f
    ELSE [q \in {x \in DOMAIN f : ~Under(p, x)} |->
             IF q = Front(p)
             THEN DirNode(SelectSeq(f[q].kids, LAMBDA n : n # p[Len(p)]))
             ELSE f[q]]

\* fs::create_dir_all returns Ok: neither p nor an ancestor of p is a file
Creatable(f, p) ==
    \A k \in 1..Len(p) : SubSeq(p, 1, k) \in DOMAIN f => IsDir(f, SubSeq(p, 1, k))

\* fs::create_dir_all: p and its missing ancestors become directories; an
\* Err leaves everything as it is
RECURSIVE create_dir_all(_, _)
create_dir_all(f, p) ==
    IF p \in DOMAIN f \/ ~Creatable(f, p) THEN f
    ELSE WithEntry(create_dir_all(f, Front(p)), p, DirNode(<<>>))

-----------------------------------------------------------------------------
(* main.rs: locate_assets *)

KNOWN_DIRS == {".git", ".hg"}

\* Path::display of a relative path: its names with the separator between
RECURSIVE RelativeDisplay(_)
RelativeDisplay(p) ==
    IF p = <<>> THEN <<>>
    ELSE IF Len(p) = 1 THEN <<p[1]>>
    ELSE RelativeDisplay(Front(p)) \o <<"/", p[Len(p)]>>

\* Path::display of an absolute path
PathDisplay(p) == <<"/">> \o RelativeDisplay(p)

\* what a walk has gathered: the assets, the directories entered and the
\* log calls, each in order, and whether it is still running (it has not
\* panicked)
NoneLocated == [ok |-> TRUE, assets |-> <<>>, visited |-> <<>>, calls |-> <<>>]

\* locate_assets_recursive lines 189: the directory is entered
Entered(acc, path) ==
    [ok      |-> acc.ok,
     assets  |-> acc.assets,
     visited |-> Append(acc.visited, path),
     calls   |-> Append(acc.calls,
                        log_verbose("Info", <<"Entering directory: ">> \o PathDisplay(path)))]

\* lines 195: config.txt was opened
Opened(acc) ==
    [ok      |-> acc.ok,
     assets  |-> acc.assets,
     visited |-> acc.visited,
     calls   |-> Append(acc.calls, log_verbose("Info", <<"Found config.txt">>))]

\* lines 204-206: the username, or the empty text
NameOf(m) == IF m.ok THEN m.name ELSE <<>>

\* lines 208-214: the asset is logged and pushed
Pushed(acc, path, kuid, name) ==
    [ok      |-> acc.ok,
     assets  |-> Append(acc.assets,
                        [name |-> IF name = <<>> THEN <<"<">> \o kuid \o <<">">> ELSE name,
                         kuid |-> kuid,
                         path |-> path]),
     visited |-> acc.visited,
     calls   |-> Append(acc.calls,
                        log_normal("Info", <<"Found asset '">> \o name \o <<"' <">> \o kuid
                                           \o <<">: ">> \o PathDisplay(path)))]

\* lines 200-216: config.txt was read
Matched(acc, path, contents, caps) ==
    IF caps.ok THEN Pushed(acc, path, caps.kuid, NameOf(USERNAME_MATCHER(contents)))
    ELSE acc

\* lines 197-198 and 220: an expect or unwrap that fails ends the walk
Unwound(acc) ==
    [ok |-> FALSE, assets |-> acc.assets, visited |-> acc.visited, calls |-> acc.calls]

\* what the walk does with config.txt, lines 192-217: File::open fails on a
\* path that does not exist and succeeds on a file and on a directory;
\* read_to_string fails on a directory and on a file that is not UTF-8
AfterConfig(f, path, acc) ==
    IF IsFile(f, Join(path, "config.txt")) /\ Utf8(f[Join(path, "config.txt")].text)
    THEN Matched(Opened(Entered(acc, path)), path, f[Join(path, "config.txt")].text,
                 KUID_MATCHER(f[Join(path, "config.txt")].text))
    ELSE IF Join(path, "config.txt") \in DOMAIN f
    THEN Unwound(Opened(Entered(acc, path)))
    ELSE Entered(acc, path)

\* config.txt of the directory names an asset
NamesAsset(f, path) ==
    /\ IsFile(f, Join(path, "config.txt"))
    /\ Utf8(f[Join(path, "config.txt")].text)
    /\ KUID_MATCHER(f[Join(path, "config.txt")].text).ok

\* (variant: an asset root is searched further)
Descends_Always(f, path, recurse) == recurse

\* (variant: only an asset root ends the search)
Descends_Unmatched(f, path, recurse) == recurse /\ ~NamesAsset(f, path)

\* lines 193 and 219: the subdirectories are walked when config.txt could
\* not be opened and recursive is set
Descends(f, path, recurse) == Join(path, "config.txt") \notin DOMAIN f /\ recurse

\* (variant: every subdirectory is walked)
Skipped_Never(name) == FALSE

\* line 224
Skipped(name) == name \in KNOWN_DIRS

\* locate_assets_recursive, and the loop of lines 220-229 over the entries
\* `names` of path that are still to come; read_dir of a path that is no
\* directory fails
RECURSIVE locate_assets_recursive(_, _, _, _), locate_entries(_, _, _, _, _)
locate_assets_recursive(f, path, recurse, acc) ==
    IF ~acc.ok THEN acc
    ELSE IF Descends(f, path, recurse)
    THEN IF IsDir(f, path)
         THEN locate_entries(f, path, f[path].kids, recurse, AfterConfig(f, path, acc))
         ELSE Unwound(AfterConfig(f, path, acc))
    ELSE AfterConfig(f, path, acc)

locate_entries(f, path, names, recurse, acc) ==
    IF names = <<>> \/ ~acc.ok THEN acc
    ELSE locate_entries(f, path, Tail(names), recurse,
             IF IsDir(f, Join(path, Head(names))) /\ ~Skipped(Head(names))
             THEN locate_assets_recursive(f, Join(path, Head(names)), TRUE, acc)
             ELSE acc)

\* locate_assets lines 179-183
LocateAssets(f, build_path, recurse) ==
    locate_assets_recursive(f, build_path, recurse, NoneLocated)

-----------------------------------------------------------------------------
(* Inputs of LocateSpec: directory trees under the build path *)

MaxKids == 2            \* subdirectories of the build path

\* main line 108: current_dir().join(INPUT), for INPUT = build
BuildPath == Join(Cwd, "build")

\* config.txt of an asset with the given identity and user name
ConfigText(kuid, name) ==
    <<"k","u","i","d"," ","<">> \o kuid \o <<">", CR, LF>> \o <<"u","s","e","r","n","a","m","e"," ","\"">> \o name \o <<"\"", LF>>

\* a config.txt that names no asset: its kuid tag does not start a line
tConfigPlain == <<"u","s","e","r","n","a","m","e"," ","\"","x","\"",LF," ","k","u","i","d"," ","<","k","u","i","d",":","1",":","2",">",LF>>

tKuidA == <<"K","U","I","D","2",":","1","2","3","4","5",":","6","7","8",":","9">>

\* what a directory holds as config.txt: nothing, an asset's, a plain one, or
\* a directory of that name
ConfigKinds == {"none", "asset", "plain", "dir"}

\* a subdirectory of the build path: its config.txt, and its subdirectory x:
\* none, an asset root, or (beneath a directory without config.txt) one whose
\* config.txt is not UTF-8
Mids ==
    [cfg : ConfigKinds, sub : {"none", "asset"}] \cup {[cfg |-> "none", sub |-> "binary"]}

LocateNames == {"a", "b", ".git", ".hg"}

\* the subdirectories of the build path, in the order read_dir yields them
KidLists ==
    {s \in SeqsUpTo([name : LocateNames, mid : Mids], MaxKids) :
        \A i, j \in 1..Len(s) : i # j => s[i].name # s[j].name}

Shapes == [cfg : ConfigKinds, kids : KidLists]

\* the directory p with the given kind of config.txt
WithDir(f, p, cfg) ==
    IF cfg = "none" THEN create_dir_all(f, p)
    ELSE IF cfg = "dir" THEN create_dir_all(f, Join(p, "config.txt"))
    ELSE WithEntry(create_dir_all(f, p), Join(p, "config.txt"),
                   FileNode(IF cfg = "asset" THEN ConfigText(tKuidA, <<"A">>)
                            ELSE IF cfg = "binary"
                            THEN ConfigText(tKuidA, <<"A">>) \o <<XFF>>
                            ELSE tConfigPlain))

WithMid(f, p, mid) ==
    IF mid.sub # "none" THEN WithDir(WithDir(f, p, mid.cfg), Join(p, "x"), mid.sub)
    ELSE WithDir(f, p, mid.cfg)

RECURSIVE WithKids(_, _, _)
WithKids(f, p, kids) ==
    IF kids = <<>> THEN f
    ELSE WithKids(WithMid(f, Join(p, Head(kids).name), Head(kids).mid), p, Tail(kids))

EmptyFs == (<<>> :> DirNode(<<>>))

FsOf(shape) == WithKids(WithDir(EmptyFs, BuildPath, shape.cfg), BuildPath, shape.kids)

\* LocateSpec: locate_assets applied to every tree over Shapes
ProbeLocate ==
    /\ probe.state = "tree"
    /\ probe' = [state |-> "located", shape |-> probe.shape,
                 recursive |-> probe.recursive,
                 result |-> LocateAssets(FsOf(probe.shape), BuildPath, probe.recursive)]
    /\ UNCHANGED runVars

-----------------------------------------------------------------------------
(* main.rs: copy_dir *)

\* what a copy has done so far: whether every step returned Ok, the file
\* system, and the log calls in order
Copying(f) == [ok |-> TRUE, fs |-> f, calls |-> <<>>]

CopyFailed(acc) == [ok |-> FALSE, fs |-> acc.fs, calls |-> acc.calls]

CopyLogged(acc, text) ==
    [ok |-> acc.ok, fs |-> acc.fs, calls |-> Append(acc.calls, log_verbose("Info", text))]

\* lines 360-362: fs::copy writes the file into dst, which has to be a
\* directory; it truncates the destination before it reads the source, so a
\* file copied onto itself is left empty
CopiedFile(acc, from, dst, name) ==
    IF IsDir(acc.fs, dst) /\ ~IsDir(acc.fs, Join(dst, name)) /\ IsFile(acc.fs, from)
    THEN [ok |-> TRUE,
          fs |-> WithEntry(acc.fs, Join(dst, name),
                           FileNode(IF from = Join(dst, name) THEN <<>>
                                    ELSE acc.fs[from].text)),
          calls |-> acc.calls]
    ELSE CopyFailed(acc)

\* line 364: fs::create_dir makes one new directory in an existing one
create_dir(acc, p) ==
    IF IsDir(acc.fs, Front(p)) /\ p \notin DOMAIN acc.fs
    THEN [ok |-> TRUE, fs |-> WithEntry(acc.fs, p, DirNode(<<>>)), calls |-> acc.calls]
    ELSE CopyFailed(acc)

\* copy_dir lines 348-369, and its loop over the entries `names` of src that
\* are still to come; try! leaves at the first Err
RECURSIVE copy_dir(_, _, _), copy_entries(_, _, _, _)
copy_dir(acc, src, dst) ==
    IF ~acc.ok THEN acc
    ELSE IF ~IsDir(acc.fs, src)
    THEN CopyFailed(CopyLogged(acc, <<"Copying directory '{}' to '{}'">>))
    ELSE copy_entries(CopyLogged(acc, <<"Copying directory '{}' to '{}'">>),
                      src, dst, acc.fs[src].kids)

copy_entries(acc, src, dst, names) ==
    IF names = <<>> \/ ~acc.ok THEN acc
    ELSE copy_entries(
             IF IsFile(acc.fs, Join(src, Head(names)))
             THEN CopiedFile(CopyLogged(acc, <<"Copying file '{}' to '{}'">>),
                             Join(src, Head(names)), dst, Head(names))
             ELSE IF IsDir(acc.fs, Join(src, Head(names)))
             THEN copy_dir(create_dir(acc, Join(dst, Head(names))),
                           Join(src, Head(names)), Join(dst, Head(names)))
             ELSE acc,
             src, dst, Tail(names))

-----------------------------------------------------------------------------
(* main.rs: replace_kuid *)

\* (variant: the dummy tag is written in front of the identity line)
replace_kuid_text_Inserted(text, m) ==
    IF m.ok THEN SubSeq(text, 1, m.from - 1) \o KUID_DUMMY_TAG
                 \o SubSeq(text, m.from, Len(text))
    ELSE text

\* lines 375-385: the text read from config.txt and the text written back
replace_kuid_text(text, m) == KuidReplaced(text, m)

\* replace_kuid: config.txt of asset_root is read, rewritten and written
\* back; Err when it cannot be opened or is not UTF-8
replace_kuid(f, asset_root) ==
    IF IsFile(f, Join(asset_root, "config.txt")) /\ Utf8(f[Join(asset_root, "config.txt")].text)
    THEN [ok |-> TRUE,
          fs |-> WithEntry(f, Join(asset_root, "config.txt"),
                    FileNode(replace_kuid_text(f[Join(asset_root, "config.txt")].text,
                                 KUID_MATCHER(f[Join(asset_root, "config.txt")].text))))]
    ELSE [ok |-> FALSE, fs |-> f]

-----------------------------------------------------------------------------
(* Inputs of ConfigSpec: config.txt texts, built from their lines *)

MaxConfigLines == 3     \* lines of a probed config.txt

\* a line of config.txt: identity (it matches the identity pattern as a
\* whole), bare (the keyword alone, which a bracket on the next line
\* completes) or inert
ConfigLine(cat, text) == [cat |-> cat, text |-> text]

ConfigLines == {
    ConfigLine("identity", <<"k","u","i","d"," ","<","k","u","i","d",":","1",":","2",">">>),
    ConfigLine("identity", <<"K","U","I","D","\t"," ","<","K","u","i","d","2",":","1","2","3","4","5",":","6","7","8",":","9",">">>),
    ConfigLine("identity", <<"k","u","i","d"," ","<","k","u","i","d",":","U+0660",":","U+0967",">">>),
    ConfigLine("identity", KUID_DUMMY_TAG),
    ConfigLine("bare", <<"k","u","i","d">>),
    ConfigLine("inert", <<" ","k","u","i","d"," ","<","k","u","i","d",":","1",":","2",">">>),
    ConfigLine("inert", <<"<","k","u","i","d",":","3",":","4",">">>) }

ConfigEols == {<<LF>>, <<CR, LF>>}

RenderConfig(lines, eol) == Flatten([k \in 1..Len(lines) |-> lines[k].text \o eol])

\* the directory --temp-dir stage names, a path relative to the current directory
StagePath == Join(Cwd, "stage")

\* a staged copy that holds config.txt alone
StagedConfig(text) ==
    WithEntry(create_dir_all(EmptyFs, StagePath), Join(StagePath, "config.txt"),
              FileNode(text))

\* ConfigSpec: replace_kuid applied to the staged copy, and applied again
ProbeReplaceKuid ==
    /\ probe.state \in {"config", "once"}
    /\ replace_kuid(probe.fs, StagePath).ok
    /\ probe' = [state |-> IF probe.state = "config" THEN "once" ELSE "twice",
                 lines |-> probe.lines, eol |-> probe.eol,
                 before |-> probe.fs,
                 fs |-> replace_kuid(probe.fs, StagePath).fs]
    /\ UNCHANGED runVars

-----------------------------------------------------------------------------
(* main.rs: the run *)

KUID_DUMMY == <<"k","u","i","d",":","2","9","8","4","6","9",":","9","9","9","9","9","9">>

\* the names of the asset directories beneath the build path
DirName(i) == <<"d1", "d2", "d3", "d4">>[i]

\* the i-th asset the locator can find: kuid:12345:<i>, in directory d<i>
Asset(i) ==
    [name |-> <<"A">> \o ToDigits(i),
     kuid |-> <<"k","u","i","d",":","1","2","3","4","5",":">> \o ToDigits(i),
     path |-> Join(BuildPath, DirName(i))]

\* Option values
None == [some |-> FALSE]
Some(p) == [some |-> TRUE, path |-> p]

\* the directory TempDir::new("tzassetbuild") creates for the i-th asset of
\* the run: a name of its own in the system's directory for temporary files
TempPath(i) == <<"tmp", <<"tzassetbuild.1", "tzassetbuild.2", "tzassetbuild.3",
                          "tzassetbuild.4">>[i]>>

\* the directory of the i-th asset: config.txt, and for the first asset a
\* mesh and a directory of textures besides
WithAsset(f, i) ==
    IF i = 1
    THEN WithEntry(WithEntry(WithEntry(
             WithEntry(create_dir_all(f, Asset(i).path),
                       Join(Asset(i).path, "mesh.im"), FileNode(<<"m">>)),
             Join(Asset(i).path, "config.txt"),
             FileNode(ConfigText(Asset(i).kuid, Asset(i).name))),
             Join(Asset(i).path, "art"), DirNode(<<>>)),
             Join(Join(Asset(i).path, "art"), "t.tga"), FileNode(<<"t">>))
    ELSE WithEntry(create_dir_all(f, Asset(i).path),
                   Join(Asset(i).path, "config.txt"),
                   FileNode(ConfigText(Asset(i).kuid, Asset(i).name)))

RECURSIVE WithAssets(_, _)
WithAssets(f, n) == IF n = 0 THEN f ELSE WithAsset(WithAssets(f, n - 1), n)

\* the file system a run starts on: n asset directories beneath the build
\* path, a staging directory left over from an earlier run, and the system's
\* directory for temporary files
RunFs(n) ==
    WithAssets(
        WithEntry(create_dir_all(create_dir_all(create_dir_all(EmptyFs, BuildPath),
                                                <<"tmp">>), StagePath),
                  Join(StagePath, "old"), FileNode(<<"o">>)),
        n)

\* a build path whose one asset has the identity of KUID_DUMMY itself
DummyFs ==
    WithEntry(create_dir_all(RunFs(0), Join(BuildPath, "d0")),
              Join(Join(BuildPath, "d0"), "config.txt"),
              FileNode(ConfigText(KUID_DUMMY, <<"D">>)))

\* a build path whose second directory holds a directory named config.txt
UnreadableFs == create_dir_all(RunFs(1), Join(Join(BuildPath, DirName(2)), "config.txt"))

\* the file systems a run starts on
RunTrees == {RunFs(n) : n \in 0..MaxAssets} \cup {DummyFs, UnreadableFs}

\* the values of --temp-dir: none, a directory of its own, the first asset's
\* directory, a file, or a path beneath a file
TempPaths == {None, Some(StagePath), Some(Join(BuildPath, DirName(1))),
              Some(Join(StagePath, "old")), Some(Join(Join(StagePath, "old"), "x"))}

tSummary00 == SummaryLine([ok |-> <<"O","K">>, ws |-> <<" ">>], N0, N0, FALSE)
tSummary01 == SummaryLine([ok |-> <<"O","K">>, ws |-> <<" ">>], N0, N12, FALSE)
tSummary70 == SummaryLine([ok |-> <<"O","K">>, ws |-> <<" ">>], N007, N0, FALSE)
tDiagError == <<"-"," ","<","k",">"," ",":"," ","m","e","s","h">>
tDiagWarn  == <<"!","<","k",">",":","o","l","d">>

\* What the tool may do when it is invoked: the spawn results the run is
\* checked against.
\* exit failure, "x" and OK (007 Errors, 0 Warnings)
RFailure == Exited(FALSE, <<"x", LF>> \o tSummary70 \o <<LF>>)
\* exit success, "1.0" and OK (0 Errors, 0 Warnings)
RVersion == Exited(TRUE, <<"1",".","0", LF>> \o tSummary00 \o <<LF>>)
\* exit success, OK (0 Errors, 0 Warnings) alone
RBare    == Exited(TRUE, tSummary00 \o <<LF>>)
\* exit success, an error and a warning diagnostic, OK (0 Errors, 12 Warnings), CR LF
RDiag    == Exited(TRUE, tDiagError \o <<CR, LF>> \o tDiagWarn \o <<CR, LF>>
                         \o tSummary01 \o <<CR, LF>>)
\* exit success, an error diagnostic, a note and OK (007 Errors, 0 Warnings)
RInvalid == Exited(TRUE, tDiagError \o <<LF>> \o <<"n","o","t","e", LF>>
                         \o tSummary70 \o <<LF>>)
\* exit success, no summary line
RGarbage == Exited(TRUE, <<"d","o","n","e", LF>>)
\* exit failure, nothing written
RSilent  == Exited(FALSE, <<>>)

ToolReplies ==
    {SpawnNotFound, SpawnIoError, RFailure, RVersion, RBare, RDiag, RInvalid, RGarbage,
     RSilent}

\* the replies that exit with success and report 0 Errors, 0 Warnings
CleanReplies == {RVersion, RBare}

\* the replies whose summary line reports 0 Errors
ZeroErrorReplies == {RVersion, RBare, RDiag}

\* trainzutil::execute on each of them
Executed == [reply \in ToolReplies |-> execute(reply)]

\* main lines 95-99 and 107-117: the logger mode and the build arguments are
\* any the command line can give
Init ==
    /\ probe = NoProbe
    /\ pc = "start"
    /\ mode \in Modes
    /\ install \in BOOLEAN
    /\ show \in {"config", "kuid", "path"}
    /\ located = <<>>
    /\ idx = 0
    /\ asset_count = 0
    /\ failed_count = 0
    /\ stats = [errors |-> 0, warnings |-> 0]
    /\ calls = <<>>
    /\ printed = <<>>
    /\ trace = <<>>
    /\ entered = <<>>
    /\ outcomes = <<>>
    /\ lastReply = SpawnNotFound
    /\ clean = TRUE
    /\ exitCode = -1
    /\ recursive \in BOOLEAN
    /\ temp_path \in TempPaths
    /\ flag_version \in BOOLEAN
    /\ fs \in RunTrees
    /\ temp_dir = None

\* a panic unwinds out of main: the process ends with status 101
Panicked ==
    /\ pc' = "panicked"
    /\ exitCode' = 101

\* (variant: the temporary directory is left behind)
Dropped_Never(f, t) == f

\* Drop of Option<TempDir>: the directory of a TempDir is removed
Dropped(f, t) == IF t.some THEN remove_dir_all(f, t.path) ELSE f

\* temp_dir goes out of scope, at the end of build_asset or by unwinding
DropTempDir ==
    /\ fs' = Dropped(fs, temp_dir)
    /\ temp_dir' = None

\* main line 119
ExitStatus(success) == IF success THEN 0 ELSE 1

\* the tool is invoked and does `reply`
Invoke(asset, cmd, arg, reply) ==
    /\ lastReply' = reply
    /\ clean' = (clean /\ reply \in CleanReplies)
    /\ trace' = Append(trace, [asset |-> asset, cmd |-> cmd, arg |-> arg,
                               res |-> Executed[reply].tag])

\* main lines 102-105: --version prints the version of the package on
\* stdout, not through the logger, and main returns
Version ==
    /\ pc = "start"
    /\ flag_version
    /\ printed' = Append(printed, <<"{CARGO_PKG_VERSION}">>)
    /\ pc' = "returned"
    /\ exitCode' = 0
    /\ UNCHANGED <<probe, argVars, located, idx, asset_count, failed_count, stats, calls,
                   trace, entered, outcomes, lastReply, clean, fs, temp_dir>>

\* build lines 137-147: the version call
\* (variant: a failed version call is logged and the run goes on)
PreflightResult_Continues(r, cs) ==
    IF r.tag = "panic" \/ (r.tag = "ok" /\ r.output.lines = <<>>)
    THEN /\ Panicked
         /\ Logs(cs)
    ELSE /\ Logs(cs \o (IF r.tag = "ok" THEN <<>>
                         ELSE << log_normal("Error", <<"Unable to execute TrainzUtil: {}">>) >>))
         /\ pc' = "locate"
         /\ exitCode' = exitCode

PreflightResult(r, cs) ==
    IF r.tag = "panic" \/ (r.tag = "ok" /\ r.output.lines = <<>>)
    THEN /\ Panicked                                   \* from_stdout, output.lines[0]
         /\ Logs(cs)
    ELSE IF r.tag = "ok"
    THEN /\ Logs(Append(cs, log_verbose("Info",
                     <<"TrainzUtil version: ">> \o r.output.lines[1])))
         /\ pc' = "locate"
         /\ exitCode' = exitCode
    ELSE /\ Logs(cs \o << log_normal("Error", <<"Unable to execute TrainzUtil: {}">>),
                          log_silent("Error", <<"- <NULL> : TrainzUtil not found">>) >>)
         /\ pc' = "done"
         /\ exitCode' = ExitStatus(FALSE)

Preflight ==
    /\ pc = "start"
    /\ ~flag_version
    /\ \E reply \in ToolReplies :
        /\ Invoke(0, "version", <<>>, reply)
        /\ PreflightResult(Executed[reply],
                           << log_verbose("Info", <<"Build path: {}">>),
                              log_verbose("Info", <<"TrainzUtil path: {}">>) >>)
    /\ UNCHANGED <<probe, argVars, located, idx, asset_count, failed_count,
                   entered, outcomes, fs, temp_dir>>

\* the log calls of the walk are made; the Vec locate_assets returned is
\* kept, or the walk has panicked and nothing is returned
LocatedAre(r) ==
    /\ Logs(r.calls)
    /\ IF r.ok
       THEN /\ located' = r.assets
            /\ pc' = "loop"
            /\ exitCode' = exitCode
       ELSE /\ located' = located
            /\ Panicked

\* build line 152: locate_assets returns the assets found under build_path
locate_assets ==
    /\ pc = "locate"
    /\ LocatedAre(LocateAssets(fs, BuildPath, recursive))
    /\ UNCHANGED <<probe, argVars, idx, asset_count, failed_count,
                   trace, entered, outcomes, lastReply, clean, fs, temp_dir>>

-----------------------------------------------------------------------------
(* main.rs: build_asset *)

\* build_asset lines 241-250: the path without the components of build_path
asset_relative_path(asset) == SubSeq(asset.path, Len(BuildPath) + 1, Len(asset.path))

asset_output_name(asset) ==
    CASE show = "config" -> <<"[">> \o RelativeDisplay(Join(asset_relative_path(asset),
                                                        "config.txt")) \o <<"]">>  \* lines 252-256
      [] show = "kuid"   -> <<"<">> \o asset.kuid \o <<">">>
      [] show = "path"   -> <<"[">> \o RelativeDisplay(asset_relative_path(asset)) \o <<"]">>

\* build_asset lines 264-280 and 282
install_path(asset, t) ==
    IF install THEN asset.path
    ELSE IF temp_path.some THEN temp_path.path
    ELSE t.path

\* (variant: the asset's own identity is committed and validated)
install_kuid_Own(asset) == asset.kuid

\* build_asset line 282
install_kuid(asset) == IF install THEN asset.kuid ELSE KUID_DUMMY

\* the two log calls log_validation_output makes for one matched line
DiagSeverity(prefix) ==
    CASE prefix = "-" -> "Error" [] prefix = "!" -> "Warn"
      [] prefix = "+" -> "Info"  [] prefix = ";" -> "Info"

\* (variant: every diagnostic goes to the Normal tier)
DiagTier_Normal(prefix) == "Normal"

DiagTier(prefix) == IF prefix = ";" THEN "Verbose" ELSE "Normal"

DiagCalls(label, caps) ==
    IF caps.ok
    THEN << [tier |-> DiagTier(caps.prefix), sev |-> DiagSeverity(caps.prefix),
             text |-> caps.message],
            log_silent(DiagSeverity(caps.prefix),
                       <<caps.prefix, " ">> \o label \o <<" ",":"," ">> \o caps.message) >>
    ELSE <<>>

\* the calls of log_validation_output, in order
log_validation_output(label, output) ==
    Flatten([k \in 1..Len(output.lines) |->
                DiagCalls(label, TZUTIL_OUTPUT_MATCHER(output.lines[k]))])

-----------------------------------------------------------------------------
(* Inputs of DiagSpec: lines of a validate reply *)

MaxDiagLines == 2       \* lines of a probed validate output

\* a line  <lead> P <ws> < kuid > <ws> : <ws> message
DiagText(lead, prefix, ws, kuid, message) ==
    lead \o <<prefix>> \o ws \o <<"<">> \o kuid \o <<">">> \o ws \o <<":">> \o ws \o message

\* a line that is a diagnostic from its first character on
DiagLine(prefix, ws, message) ==
    [cat |-> "diag", prefix |-> prefix, message |-> message,
     text |-> DiagText(<<>>, prefix, ws, <<"k","u","i","d",":","1",":","2">>, message)]

\* a diagnostic with other text in front of it
LedDiagLine(lead, prefix, message) ==
    [cat |-> "led", prefix |-> prefix, message |-> message,
     text |-> DiagText(lead, prefix, <<" ">>, <<"k","u","i","d",":","1",":","2">>, message)]

\* a diagnostic with nothing between the brackets
BlankDiagLine(prefix, message) ==
    [cat |-> "blank", prefix |-> prefix, message |-> message,
     text |-> DiagText(<<>>, prefix, <<>>, <<>>, message)]

PlainLine(text) == [cat |-> "plain", text |-> text]

DiagLines ==
    {DiagLine(p, <<>>, <<"m","e","s","h">>) : p \in DiagPrefix}
    \cup {DiagLine(p, <<" ">>, <<"t","w","o"," ","w","o","r","d","s">>) : p \in DiagPrefix}
    \cup {LedDiagLine(<<"x">>, "-", <<"m","e","s","h">>), LedDiagLine(<<" ">>, "+", <<"m","e","s","h">>),
          BlankDiagLine("!", <<"m","e","s","h">>),
          PlainLine(<<"n","o","t","e">>), PlainLine(<<"-"," ","k"," ",":"," ","m","e","s","h">>), PlainLine(<<"-","<","k",">"," ","m","e","s","h">>),
          PlainLine(<<"-","<","k",">",":">>), PlainLine(<<"?","<","k",">",":","m","e","s","h">>)}

\* DiagSpec: log_validation_output applied to the lines of the probe, for
\* the first asset's label
ProbeValidation ==
    /\ probe.state = "lines"
    /\ Logs(log_validation_output(asset_output_name(Asset(1)),
                [lines |-> [k \in 1..Len(probe.lines) |-> probe.lines[k].text]]))
    /\ probe' = [state |-> "logged", lines |-> probe.lines]
    /\ UNCHANGED <<pc, argVars, located, idx, asset_count, failed_count,
                   trace, entered, outcomes, lastReply, clean, exitCode, fs, temp_dir>>

\* build_asset lines 269-270: the staging directory is removed with all it
\* holds, an error ignored, and created; the expect fails when it cannot be
\* created, and nothing is logged then
Cleared(f, p) ==
    [ok       |-> Creatable(remove_dir_all(f, p), p),
     fs       |-> create_dir_all(remove_dir_all(f, p), p),
     temp_dir |-> None,
     calls    |-> IF Creatable(remove_dir_all(f, p), p)
                  THEN << log_verbose("Info", <<"Using temporary directory: {}">>) >>
                  ELSE <<>>]

\* build_asset lines 264-280: the directory the copy of the i-th asset is
\* staged in is made ready; temp_dir holds a TempDir when no staging
\* directory is configured
Prepared(f, i) ==
    IF temp_path.some
    THEN Cleared(f, temp_path.path)
    ELSE [ok |-> TRUE,
          fs |-> WithEntry(f, TempPath(i), DirNode(<<>>)), temp_dir |-> Some(TempPath(i)),
          calls |-> << log_verbose("Info", <<"Temporary directory: {}">>) >>]

\* build_asset lines 284-287: the asset's files are copied, unless the
\* expect of line 270 has panicked before
Copied(pre, asset) ==
    [copy     |-> IF pre.ok
                  THEN copy_dir(CopyLogged(Copying(pre.fs),
                                    <<"Copying asset files to temp directory...">>),
                                asset.path, install_path(asset, pre.temp_dir))
                  ELSE CopyFailed(Copying(pre.fs)),
     temp_dir |-> pre.temp_dir,
     calls    |-> pre.calls]

\* build_asset lines 288-289: the identity of the staged copy is replaced,
\* unless a panic has ended build_asset before
Replaced(c, asset) ==
    [ok       |-> c.copy.ok /\ replace_kuid(c.copy.fs, install_path(asset, c.temp_dir)).ok,
     fs       |-> IF c.copy.ok
                  THEN replace_kuid(c.copy.fs, install_path(asset, c.temp_dir)).fs
                  ELSE c.copy.fs,
     temp_dir |-> c.temp_dir,
     calls    |-> c.calls \o c.copy.calls
                  \o (IF c.copy.ok THEN << log_verbose("Info", <<"Replacing kuid...">>) >>
                      ELSE <<>>)]

\* build_asset lines 262-290 for the i-th asset of the run
Staged(f, asset, i) ==
    IF install THEN [ok |-> TRUE, fs |-> f, temp_dir |-> None, calls |-> <<>>]
    ELSE Replaced(Copied(Prepared(f, i), asset), asset)

\* the staging is done: build_asset goes on to the install stage, or an
\* unwrap panics and temp_dir is dropped by the unwinding
StagedAs(st, cs) ==
    /\ Logs(cs \o st.calls)
    /\ IF st.ok
       THEN /\ pc' = "install"
            /\ exitCode' = exitCode
            /\ fs' = st.fs
            /\ temp_dir' = st.temp_dir
       ELSE /\ Panicked
            /\ fs' = Dropped(st.fs, st.temp_dir)
            /\ temp_dir' = None

\* (variant: the loop breaks at the first failed asset)
LoopContinues_UntilFailure == idx < Len(located) /\ failed_count = 0

\* build line 152: the for loop has another asset to hand to build_asset
LoopContinues == idx < Len(located)

CurrentAsset == located[idx + 1]

\* build lines 152-153 and build_asset lines 235-290: the loop takes the
\* next asset and build_asset prepares its installation
BeginAsset ==
    /\ pc = "loop"
    /\ LoopContinues
    /\ asset_count' = asset_count + 1
    /\ entered' = Append(entered, CurrentAsset)
    /\ StagedAs(Staged(fs, CurrentAsset, idx + 1),
                << log_normal("Info", <<"Building asset '">> \o CurrentAsset.name \o <<"'">>) >>)
    /\ UNCHANGED <<probe, argVars, located, idx, failed_count,
                   trace, outcomes, lastReply, clean>>

\* build_asset lines 326-345 and build lines 154-156: the asset's result is
\* logged and returned, and the loop counts a failure
EndAsset(cs, ok) ==
    /\ Logs(Append(cs, IF ok THEN log_normal("Info", <<"Build success">>)
                       ELSE log_normal("Error", <<"Build failed">>)))
    /\ outcomes' = Append(outcomes, ok)
    /\ failed_count' = IF ok THEN failed_count ELSE failed_count + 1
    /\ idx' = idx + 1
    /\ pc' = "loop"
    /\ exitCode' = exitCode
    /\ DropTempDir

\* (variant: validate follows installfrompath at once)
StageAfter_Validate(stage) == "validate"

\* and_then: the stage that follows a stage that returned Ok
StageAfter(stage) ==
    CASE stage = "install" -> "commit" [] stage = "commit" -> "validate"

\* the install and commit stages, build_asset lines 292-310
\* (variant: a failed stage is logged and the next stage runs all the same)
StageResult_NoShortCircuit(r, stage, okText, errText) ==
    IF r.tag = "panic"
    THEN /\ Panicked
         /\ DropTempDir
         /\ UNCHANGED <<stats, calls, printed, outcomes, failed_count, idx>>
    ELSE /\ Logs(<< IF r.tag = "ok" THEN log_verbose("Info", okText)
                    ELSE log_normal("Error", errText) >>)
         /\ pc' = StageAfter(stage)
         /\ UNCHANGED <<outcomes, failed_count, idx, exitCode, fs, temp_dir>>

\* (variant: output that cannot be parsed fails the stage like an error)
StageResult_Unparsed(r, stage, okText, errText) ==
    IF r.tag = "ok"
    THEN /\ Logs(<< log_verbose("Info", okText) >>)
         /\ pc' = StageAfter(stage)
         /\ UNCHANGED <<outcomes, failed_count, idx, exitCode, fs, temp_dir>>
    ELSE EndAsset(<< log_normal("Error", errText) >>, FALSE)

StageResult(r, stage, okText, errText) ==
    IF r.tag = "panic"
    THEN /\ Panicked
         /\ DropTempDir
         /\ UNCHANGED <<stats, calls, printed, outcomes, failed_count, idx>>
    ELSE IF r.tag = "ok"
    THEN /\ Logs(<< log_verbose("Info", okText) >>)
         /\ pc' = StageAfter(stage)
         /\ UNCHANGED <<outcomes, failed_count, idx, exitCode, fs, temp_dir>>
    ELSE EndAsset(<< log_normal("Error", errText) >>, FALSE)

Stage(stage, cmd, arg, okText, errText) ==
    /\ pc = stage
    /\ \E reply \in ToolReplies :
        /\ Invoke(idx + 1, cmd, arg, reply)
        /\ StageResult(Executed[reply], stage, okText, errText)
    /\ UNCHANGED <<probe, argVars, located, asset_count, entered>>

Install ==
    Stage("install", "installfrompath", install_path(CurrentAsset, temp_dir),
          <<"Install susccess:\n{}">>, <<"Install failed: {}">>)

Commit ==
    Stage("commit", "commit", install_kuid(CurrentAsset),
          <<"Commit success:\n{}">>, <<"Commit failed: {}">>)

\* (variant: the error count of the summary is not looked at)
IsValid_Always(output) == TRUE

\* build_asset line 316
IsValid(output) == output.errors = U32Zero

\* the validate stage, build_asset lines 311-325
\* build_asset lines 316-320
Validated(cs, valid) ==
    IF valid THEN EndAsset(cs, TRUE)
    ELSE EndAsset(Append(cs, log_verbose("Error", <<"Asset is not valid">>)), FALSE)

ValidateResult(r) ==
    IF r.tag = "panic"
    THEN /\ Panicked
         /\ DropTempDir
         /\ UNCHANGED <<stats, calls, printed, outcomes, failed_count, idx>>
    ELSE IF r.tag = "ok"
    THEN Validated(<< log_verbose("Info", <<"Validation success:\n{}">>) >>
                   \o log_validation_output(asset_output_name(CurrentAsset), r.output),
                   IsValid(r.output))
    ELSE EndAsset(<< log_normal("Error", <<"Validation failed: {}">>) >>, FALSE)

Validate ==
    /\ pc = "validate"
    /\ \E reply \in ToolReplies :
        /\ Invoke(idx + 1, "validate", install_kuid(CurrentAsset), reply)
        /\ ValidateResult(Executed[reply])
    /\ UNCHANGED <<probe, argVars, located, asset_count, entered>>

-----------------------------------------------------------------------------
(* main.rs: the report *)

tRule == <<"==============================================">>

\* build lines 160-164
BuildLine(total, failed) ==
    <<"B","U","I","L","D"," ">>
    \o (IF failed = 0 THEN <<"S","U","C","C","E","S","S">> ELSE <<"F","A","I","L","E","D"," ">>)
    \o <<" ","(">> \o ToDigits(total) \o <<" ","T","o","t","a","l",","," ">>
    \o ToDigits(total - failed) \o <<" ","S","u","c","c","e","e","d","e","d",","," ">>
    \o ToDigits(failed) \o <<" ","F","a","i","l","e","d",")">>

\* build line 166
SilentLine(failed) ==
    <<"O","K"," ","(">> \o ToDigits(failed) \o <<" ">> \o tErrors
    \o <<","," ">> \o ToDigits(0) \o <<" ">> \o tWarnings \o <<")">>

\* (variant: the build succeeds when any asset did)
BuildSucceeded_Any == asset_count - failed_count > 0 \/ asset_count = 0

\* build line 168
BuildSucceeded == failed_count = 0

\* build lines 159-168 and main line 119: the loop is over
Report ==
    /\ pc = "loop"
    /\ ~LoopContinues
    /\ Logs(<< log_normal("Info", tRule),
               log_normal("Info", BuildLine(asset_count, failed_count)),
               log_normal("Info", tRule),
               log_silent("Info", SilentLine(failed_count)) >>)
    /\ exitCode' = ExitStatus(BuildSucceeded)
    /\ pc' = "done"
    /\ UNCHANGED <<probe, argVars, located, idx, asset_count, failed_count,
                   trace, entered, outcomes, lastReply, clean, fs, temp_dir>>

Next ==
    \/ Version
    \/ Preflight
    \/ locate_assets
    \/ BeginAsset
    \/ Install
    \/ Commit
    \/ Validate
    \/ Report

Spec == Init /\ [][Next]_vars

-----------------------------------------------------------------------------
(* ParseSpec *)

ParseInit ==
    /\ probe \in [state : {"input"}, gen : Stdouts]
    /\ pc = "probe"
    /\ mode = "Normal"
    /\ install = FALSE
    /\ show = "path"
    /\ located = <<>>
    /\ idx = 0
    /\ asset_count = 0
    /\ failed_count = 0
    /\ stats = [errors |-> 0, warnings |-> 0]
    /\ calls = <<>>
    /\ printed = <<>>
    /\ trace = <<>>
    /\ entered = <<>>
    /\ outcomes = <<>>
    /\ lastReply = SpawnNotFound
    /\ clean = TRUE
    /\ exitCode = -1
    /\ recursive = FALSE
    /\ temp_path = None
    /\ flag_version = FALSE
    /\ fs = EmptyFs
    /\ temp_dir = None

ParseNext == ProbeExecute

ParseSpec == ParseInit /\ [][ParseNext]_vars

-----------------------------------------------------------------------------
(* LocateSpec *)

\* the run does not take place: only the probe changes
NoRun ==
    /\ pc = "probe"
    /\ mode = "Normal"
    /\ install = FALSE
    /\ show = "path"
    /\ located = <<>>
    /\ idx = 0
    /\ asset_count = 0
    /\ failed_count = 0
    /\ stats = [errors |-> 0, warnings |-> 0]
    /\ calls = <<>>
    /\ printed = <<>>
    /\ trace = <<>>
    /\ entered = <<>>
    /\ outcomes = <<>>
    /\ lastReply = SpawnNotFound
    /\ clean = TRUE
    /\ exitCode = -1
    /\ recursive = FALSE
    /\ temp_path = None
    /\ flag_version = FALSE
    /\ fs = EmptyFs
    /\ temp_dir = None

LocateInit ==
    /\ probe \in [state : {"tree"}, shape : Shapes, recursive : BOOLEAN]
    /\ NoRun

LocateNext == ProbeLocate

LocateSpec == LocateInit /\ [][LocateNext]_vars

-----------------------------------------------------------------------------
(* ConfigSpec *)

ConfigInit ==
    /\ \E lines \in SeqsUpTo(ConfigLines, MaxConfigLines), eol \in ConfigEols :
          probe = [state |-> "config", lines |-> lines, eol |-> eol,
                   before |-> EmptyFs,
                   fs |-> StagedConfig(RenderConfig(lines, eol))]
    /\ NoRun

ConfigNext == ProbeReplaceKuid

ConfigSpec == ConfigInit /\ [][ConfigNext]_vars

-----------------------------------------------------------------------------
(* DiagSpec *)

DiagInit ==
    /\ probe \in [state : {"lines"}, lines : SeqsUpTo(DiagLines, MaxDiagLines)]
    /\ pc = "probe"
    /\ mode \in Modes
    /\ install = FALSE
    /\ show \in {"kuid", "path"}
    /\ located = <<>>
    /\ idx = 0
    /\ asset_count = 0
    /\ failed_count = 0
    /\ stats = [errors |-> 0, warnings |-> 0]
    /\ calls = <<>>
    /\ printed = <<>>
    /\ trace = <<>>
    /\ entered = <<>>
    /\ outcomes = <<>>
    /\ lastReply = SpawnNotFound
    /\ clean = TRUE
    /\ exitCode = -1
    /\ recursive = FALSE
    /\ temp_path = None
    /\ flag_version = FALSE
    /\ fs = EmptyFs
    /\ temp_dir = None

DiagNext == ProbeValidation

DiagSpec == DiagInit /\ [][DiagNext]_vars

-----------------------------------------------------------------------------
(* Properties of the run (Spec) *)

\* the invocations made for asset a, in order
InvocationsOf(a) == SelectSeq(trace, LAMBDA e : e.asset = a)

PreflightOk == trace # <<>> /\ trace[1].res = "ok"
PreflightFailed == trace # <<>> /\ trace[1].res = "err"

HasPrefix(text, p) == Len(text) >= Len(p) /\ SubSeq(text, 1, Len(p)) = p

\* a call that writes a final report line: the BUILD line or the silent OK line
IsReportCall(c) ==
    \/ c.tier = "Normal" /\ HasPrefix(c.text, <<"B","U","I","L","D">>)
    \/ c.tier = "Silent" /\ HasPrefix(c.text, <<"O","K">>)

NoReportLine == \A k \in 1..Len(calls) : ~IsReportCall(calls[k])

\* the number of finished assets whose build_asset returned false
NFailed == Cardinality({a \in 1..Len(outcomes) : ~outcomes[a]})

\* C1: the first invocation of a run of build() is `version` with no further
\* argument, and nothing is located before it; when it fails with NotFound,
\* Failure or Unknown the run is over with exit code 1, no asset located or
\* processed, no other invocation and no final report line.  (With
\* --version main returns without a call of build() and without an
\* invocation.)
C1_PreflightFailureAborts ==
    /\ pc = "returned" => trace = <<>> /\ located = <<>>
    /\ pc \notin {"start", "returned"} =>
          /\ trace # <<>>
          /\ trace[1] \in [asset : {0}, cmd : {"version"}, arg : {<<>>},
                          res : {"ok", "err", "panic"}]
    /\ pc = "start" => trace = <<>> /\ located = <<>>
    /\ PreflightFailed =>
          /\ pc = "done"
          /\ exitCode = 1
          /\ Len(trace) = 1
          /\ located = <<>> /\ entered = <<>> /\ outcomes = <<>>
          /\ asset_count = 0
          /\ NoReportLine

C1_Witness ==
    /\ PreflightFailed
    /\ lastReply = RFailure
    /\ pc = "done"

\* C2: in a run that passes pre-flight and in which no invocation panics,
\* build_asset is called once for every located asset, in order, whatever
\* invocations fail and whatever error counts validate reports.
C2_EveryAssetBuilt ==
    /\ Len(entered) <= Len(located)
    /\ entered = SubSeq(located, 1, Len(entered))
    /\ (pc = "done" /\ PreflightOk) =>
          /\ entered = located
          /\ Len(outcomes) = Len(located)

C2_Witness ==
    /\ pc = "done"
    /\ Len(located) >= 2
    /\ ~outcomes[1]
    /\ entered = located
    /\ Len(InvocationsOf(2)) = 3

StageCmds == <<"installfrompath", "commit", "validate">>

\* C3: the invocations of one asset are a prefix of installfrompath, commit,
\* validate; every stage but the last invoked one succeeded; after a failed
\* stage the asset is over and marked failed.
C3_StageOrder ==
    \A a \in 1..Len(located) :
        LET t == InvocationsOf(a)
        IN  /\ Len(t) <= 3
            /\ \A k \in 1..Len(t) :
                  /\ t[k].cmd = StageCmds[k]
                  /\ k < Len(t) => t[k].res = "ok"
                  /\ t[k].res = "err" =>
                        /\ k = Len(t)
                        /\ Len(outcomes) >= a
                        /\ ~outcomes[a]
                        /\ idx >= a

C3_Witness ==
    /\ pc = "loop"
    /\ idx = 1
    /\ Len(InvocationsOf(1)) = 2
    /\ InvocationsOf(1)[2].res = "err"
    /\ ~outcomes[1]

\* C4: the value build_asset returns is true exactly when its three
\* invocations succeeded and the summary line of the validate reply reports
\* 0 Errors, whatever its warning count and diagnostic lines.
C4_AssetSuccess ==
    (pc = "loop" /\ idx >= 1) =>
        outcomes[idx] =
            (/\ Len(InvocationsOf(idx)) = 3
             /\ \A k \in 1..3 : InvocationsOf(idx)[k].res = "ok"
             /\ lastReply \in ZeroErrorReplies)

C4_Witness ==
    /\ pc = "loop"
    /\ idx >= 1
    /\ outcomes[idx]
    /\ lastReply = RDiag

C5Digit(n) == <<"0","1","2","3","4","5","6","7","8","9">>[n + 1]

C5BuildLine(word, total, succeeded, failed) ==
    <<"B","U","I","L","D"," ">> \o word \o <<" ","(", C5Digit(total)>>
    \o <<" ","T","o","t","a","l",","," ", C5Digit(succeeded)>>
    \o <<" ","S","u","c","c","e","e","d","e","d",","," ", C5Digit(failed)>>
    \o <<" ","F","a","i","l","e","d",")">>

C5SilentLine(failed) ==
    <<"O","K"," ","(", C5Digit(failed)," ","E","r","r","o","r","s",","," ",
      "0"," ","W","a","r","n","i","n","g","s",")">>

\* C5: at the final report total is the number of located assets, failed the
\* number of assets whose build_asset returned false, succeeded their
\* difference; the exit code is 0 exactly when failed is 0 and 1 otherwise;
\* the last call is the Silent-tier line OK (<failed> Errors, 0 Warnings).
C5_BatchReport ==
    (pc = "done" /\ PreflightOk) =>
        /\ asset_count = Len(located)
        /\ failed_count = NFailed
        /\ 0 <= failed_count /\ failed_count <= asset_count
        /\ exitCode = (IF NFailed = 0 THEN 0 ELSE 1)
        /\ Len(calls) >= 4
        /\ calls[Len(calls)] =
              [tier |-> "Silent", sev |-> "Info", text |-> C5SilentLine(NFailed)]
        /\ calls[Len(calls) - 2] =
              [tier |-> "Normal", sev |-> "Info",
               text |-> C5BuildLine(IF NFailed = 0 THEN <<"S","U","C","C","E","S","S">>
                                    ELSE <<"F","A","I","L","E","D"," ">>,
                                    Len(located), Len(located) - NFailed, NFailed)]
        /\ mode = "Silent" => printed[Len(printed)] = C5SilentLine(NFailed)

C5_Witness ==
    /\ pc = "done"
    /\ PreflightOk
    /\ Len(located) = 2
    /\ NFailed = 1
    /\ mode = "Silent"

\* C6: when every invocation so far exited with success and a summary of
\* 0 Errors, 0 Warnings, with or without lines before it, the run has not
\* panicked, and once over it has reported every located asset as succeeded
\* with exit code 0.
C6_AllSuccess ==
    clean =>
        /\ pc # "panicked"
        /\ pc = "done" =>
              /\ exitCode = 0
              /\ asset_count = Len(located)
              /\ failed_count = 0
              /\ \A a \in 1..Len(located) : outcomes[a]
              /\ ~NoReportLine

\* C7 as stated: at the end of a run the exit code is 0 exactly when the
\* logger's error counter is zero.
C7_ExitCodeIsErrorCounter ==
    pc = "done" => (exitCode = 0 <=> stats.errors = 0)

\* C7, amended: the exit code comes from build(): it is 0 exactly when the
\* version call succeeded and failed_count is 0, else 1, in every mode; a
\* nonzero exit code comes with a nonzero error counter of the logger (the
\* converse fails).
C7_ExitCodeFromTallies ==
    pc = "done" =>
        /\ exitCode \in {0, 1}
        /\ exitCode = 0 <=> (PreflightOk /\ failed_count = 0)
        /\ exitCode = 1 => stats.errors > 0

C7_Witness ==
    /\ pc = "done"
    /\ exitCode = 0
    /\ stats.errors > 0
    /\ mode = "Silent"

-----------------------------------------------------------------------------
(* Properties of execute and from_stdout (ParseSpec) *)

\* execute was applied to a process that started and exited
Started == probe.state = "done" /\ probe.spawn.kind = "exited"

\* the last line of the probed stdout is a summary line of the grammar
\*   OK \s* ( \s* e \s+ Errors \s* , \s* w \s+ Warnings \s* )
\* with OK in any letter case, any digits e and w, and nothing else on the line
IsSummary(g) == ~g.empty /\ g.last.cat = "summary"

\* every line before the last is UTF-8
IsText(g) ==
    \A k \in 1..Len(g.body) : \A j \in 1..Len(g.body[k].text) : g.body[k].text[j] # "0xFF"

\* the summary has whitespace after OK and counts u32::from_str reads (ASCII
\* digits of a number that fits a u32), and the stdout is UTF-8
IsReadableSummary(g) ==
    /\ IsSummary(g)
    /\ IsText(g)
    /\ g.last.kw.ws # <<>>
    /\ g.last.e.fits
    /\ g.last.w.fits

\* the last line holds a summary and other text, and the stdout is UTF-8
IsEmbedded(g) == ~g.empty /\ g.last.cat = "embedded" /\ IsText(g)

\* a line's text with at most one trailing CR stripped
WithoutOneCR(text) ==
    IF text # <<>> /\ text[Len(text)] = CR THEN SubSeq(text, 1, Len(text) - 1) ELSE text

\* the result carries an Output with the counts and the lines of g
ParsedAs(result, g) ==
    /\ result.tag \in {"ok", "err"}
    /\ result.output.errors = g.last.e.val
    /\ result.output.warnings = g.last.w.val
    /\ result.output.lines = [k \in 1..Len(g.body) |-> WithoutOneCR(g.body[k].text)]

\* C8 as stated: every stdout whose last line is a summary line of the
\* grammar (whitespace after OK optional, any digits) parses to its counts
\* and its preceding lines.
C8_WellFormedParses ==
    (Started /\ IsSummary(probe.gen)) => ParsedAs(probe.result, probe.gen)

\* C8, amended: a stdout that is UTF-8 and whose last line is a summary line
\* with at least one whitespace character after OK and counts in ASCII digits
\* of at most 4294967295 parses to errors = e, warnings = w and the preceding
\* lines in order, each without its terminator (LF or CR LF) and with at most
\* one trailing CR stripped.
C8_ReadableParses ==
    (Started /\ IsReadableSummary(probe.gen)) => ParsedAs(probe.result, probe.gen)

C8_Witness ==
    /\ Started
    /\ IsReadableSummary(probe.gen)
    /\ probe.gen.last.e = N007
    /\ probe.gen.last.w = N12
    /\ probe.gen.body = <<BodyLine(<<"a", CR>>, <<CR, LF>>),
                          BodyLine(<<" ","b",CR,"c"," ">>, <<LF>>)>>
    /\ probe.gen.eol = <<CR, LF>>
    /\ probe.result.tag = "ok"
    /\ probe.result.output.lines = << <<"a">>, <<" ","b",CR,"c"," ">> >>

\* C9 as stated: a stdout that is empty or whose last line is not exactly a
\* summary line does not parse.
C9_MalformedPanics ==
    (Started /\ (probe.gen.empty \/ probe.gen.last.cat # "summary")) =>
        probe.result = Panic

\* C9, amended: a stdout that is empty, or whose last line holds no summary
\* (wrong keyword, non-numeric count, blank, no whitespace after OK), or
\* whose count exceeds 4294967295 or has a digit that is not an ASCII digit,
\* or that is not UTF-8 in any line, makes from_stdout panic: no Output is
\* produced; a last line with text before or after a summary parses.
C9_UnreadablePanics ==
    /\ (Started /\ ~IsReadableSummary(probe.gen) /\ ~IsEmbedded(probe.gen)) =>
          probe.result = Panic
    /\ (Started /\ IsEmbedded(probe.gen)) => ParsedAs(probe.result, probe.gen)

C9_Witness ==
    /\ Started
    /\ ~probe.gen.empty
    /\ probe.gen.last.cat = "nonnumeric"
    /\ probe.gen.body # <<>>
    /\ probe.result = Panic

\* C10 as stated: NotFound for a path that is no executable, Unknown for
\* another spawn error, Failure with the parsed output for every process
\* that exits without success, Ok only for a process that exits with success.
C10_Classification ==
    probe.state = "done" =>
        /\ probe.spawn.kind = "notfound" => probe.result = [tag |-> "err", err |-> "NotFound"]
        /\ probe.spawn.kind = "ioerror" => probe.result = [tag |-> "err", err |-> "Unknown"]
        /\ (probe.spawn.kind = "exited" /\ ~probe.spawn.success) =>
              /\ probe.result.tag = "err"
              /\ probe.result.err = "Failure"
        /\ probe.result.tag = "ok" => (probe.spawn.kind = "exited" /\ probe.spawn.success)

\* C10, amended: NotFound for a path that is no executable, Unknown for
\* another spawn error; for a process that exits, Ok with the parsed output
\* (success) or Failure with the parsed output (no success) only when its
\* stdout is UTF-8 and its last line holds a summary with whitespace after OK
\* and counts in ASCII digits of at most 4294967295; for every other stdout
\* (empty, no summary, unreadable count, a line that is not UTF-8) execute
\* panics, whatever the exit status.
C10_ClassificationWhenParsed ==
    probe.state = "done" =>
        /\ probe.spawn.kind = "notfound" => probe.result = [tag |-> "err", err |-> "NotFound"]
        /\ probe.spawn.kind = "ioerror" => probe.result = [tag |-> "err", err |-> "Unknown"]
        /\ (Started /\ (IsReadableSummary(probe.gen) \/ IsEmbedded(probe.gen))) =>
              /\ probe.result.tag = (IF probe.spawn.success THEN "ok" ELSE "err")
              /\ ~probe.spawn.success => probe.result.err = "Failure"
              /\ ParsedAs(probe.result, probe.gen)
        /\ (Started /\ ~IsReadableSummary(probe.gen) /\ ~IsEmbedded(probe.gen)) =>
              probe.result = Panic
        /\ probe.result.tag = "ok" => (probe.spawn.kind = "exited" /\ probe.spawn.success)

C10_Witness ==
    /\ Started
    /\ ~probe.spawn.success
    /\ IsReadableSummary(probe.gen)
    /\ probe.gen.body # <<>>
    /\ probe.result.tag = "err"
    /\ probe.result.err = "Failure"

-----------------------------------------------------------------------------
(* Properties of locate_assets (LocateSpec) *)

\* locate_assets was applied to the tree of the probe
Located == probe.state = "located"

\* the root paths of the descriptors returned, in order
AssetPaths == [k \in 1..Len(probe.result.assets) |-> probe.result.assets[k].path]

VisitedDirs == Range(probe.result.visited)

KidPath(kid) == <<"cwd", "build", kid.name>>

\* the directories of the probed tree whose config.txt is of the given kind
DirsWith(cfg) ==
    (IF probe.shape.cfg = cfg THEN {<<"cwd", "build">>} ELSE {})
    \cup {KidPath(probe.shape.kids[k]) :
            k \in {j \in 1..Len(probe.shape.kids) : probe.shape.kids[j].mid.cfg = cfg}}
    \cup (IF cfg = "asset"
          THEN {Append(KidPath(probe.shape.kids[k]), "x") :
                  k \in {j \in 1..Len(probe.shape.kids) : probe.shape.kids[j].mid.sub = cfg}}
          ELSE {})

\* C11: no two descriptors have root paths of which one is the other or lies
\* beneath it; a directory entered whose config.txt matches the identity
\* pattern gets exactly one descriptor, and no directory beneath a
\* descriptor's root is entered, with recursive set or not.
C11_NoNestedAssets ==
    Located =>
        /\ \A i, j \in 1..Len(AssetPaths) :
              i # j => ~Under(AssetPaths[i], AssetPaths[j])
        /\ \A i \in 1..Len(AssetPaths) : \A v \in VisitedDirs :
              Under(AssetPaths[i], v) => v = AssetPaths[i]
        /\ \A v \in VisitedDirs \cap DirsWith("asset") :
              Cardinality({i \in 1..Len(AssetPaths) : AssetPaths[i] = v}) = 1
        /\ Range(AssetPaths) \subseteq VisitedDirs \cap DirsWith("asset")

C11_Witness ==
    /\ Located
    /\ probe.recursive
    /\ probe.shape.cfg = "asset"
    /\ Len(probe.shape.kids) = 2
    /\ probe.shape.kids[1].mid = [cfg |-> "none", sub |-> "asset"]
    /\ probe.shape.kids[2].mid = [cfg |-> "asset", sub |-> "asset"]
    /\ AssetPaths = << <<"cwd", "build">> >>

\* the asset roots to be found beneath a marker-less build path, from its
\* subdirectories in enumeration order
RECURSIVE ExpectedRoots(_)
ExpectedRoots(kids) ==
    IF kids = <<>> THEN <<>>
    ELSE (IF Head(kids).name \in {".git", ".hg"} THEN <<>>
          ELSE IF Head(kids).mid.cfg = "asset" THEN <<KidPath(Head(kids))>>
          ELSE IF Head(kids).mid.cfg = "none" /\ Head(kids).mid.sub = "asset"
               THEN <<Append(KidPath(Head(kids)), "x")>>
          ELSE <<>>)
         \o ExpectedRoots(Tail(kids))

\* C12 as stated: over a build path without config.txt, recursive=false
\* returns no descriptor and enters no subdirectory; recursive=true enters
\* exactly the subdirectories not named .git or .hg and returns every asset
\* root reached through marker-less directories, in enumeration order.
C12_EverySubdirectory ==
    (Located /\ probe.shape.cfg = "none") =>
        /\ ~probe.recursive =>
              /\ probe.result.assets = <<>>
              /\ probe.result.visited = << <<"cwd", "build">> >>
        /\ probe.recursive =>
              /\ \A k \in 1..Len(probe.shape.kids) :
                    KidPath(probe.shape.kids[k]) \in VisitedDirs
                        <=> probe.shape.kids[k].name \notin {".git", ".hg"}
              /\ AssetPaths = ExpectedRoots(probe.shape.kids)

\* a subdirectory the walk enters and in which it panics: its config.txt is
\* a directory or is not UTF-8, or it has none and the config.txt of its
\* subdirectory x is one
C12Unreadable(kid) ==
    /\ kid.name \notin {".git", ".hg"}
    /\ \/ kid.mid.cfg \in {"dir", "binary"}
       \/ kid.mid.cfg = "none" /\ kid.mid.sub \in {"dir", "binary"}

\* C12, amended: over a build path without config.txt, recursive=false
\* returns no descriptor and enters no subdirectory; recursive=true enters
\* the subdirectories not named .git or .hg in enumeration order, and those
\* beneath a subdirectory without config.txt, up to the first directory at
\* any depth whose config.txt cannot be read, where the walk panics, enters
\* nothing more and returns nothing; when there is none it returns every
\* asset root reached through marker-less directories, in enumeration order.
C12_MarkerlessRoot ==
    (Located /\ probe.shape.cfg = "none") =>
        /\ ~probe.recursive =>
              /\ probe.result.ok
              /\ probe.result.assets = <<>>
              /\ probe.result.visited = << <<"cwd", "build">> >>
        /\ probe.recursive =>
              /\ probe.result.ok <=>
                    \A k \in 1..Len(probe.shape.kids) : ~C12Unreadable(probe.shape.kids[k])
              /\ \A k \in 1..Len(probe.shape.kids) :
                    /\ KidPath(probe.shape.kids[k]) \in VisitedDirs
                          <=> /\ probe.shape.kids[k].name \notin {".git", ".hg"}
                              /\ \A j \in 1..(k - 1) : ~C12Unreadable(probe.shape.kids[j])
                    /\ Append(KidPath(probe.shape.kids[k]), "x") \in VisitedDirs
                          <=> /\ KidPath(probe.shape.kids[k]) \in VisitedDirs
                              /\ probe.shape.kids[k].mid.cfg = "none"
                              /\ probe.shape.kids[k].mid.sub # "none"
              /\ probe.result.ok => AssetPaths = ExpectedRoots(probe.shape.kids)

C12_Witness ==
    /\ Located
    /\ probe.recursive
    /\ probe.shape.cfg = "none"
    /\ Len(probe.shape.kids) = 2
    /\ probe.shape.kids[1] = [name |-> "a", mid |-> [cfg |-> "none", sub |-> "binary"]]
    /\ probe.shape.kids[2] = [name |-> "b", mid |-> [cfg |-> "asset", sub |-> "none"]]
    /\ ~probe.result.ok
    /\ probe.result.visited = << <<"cwd", "build">>, <<"cwd", "build", "a">>,
                                 <<"cwd", "build", "a", "x">> >>

\* C20: a directory whose config.txt can be opened but holds no line
\* matching the identity pattern gets no descriptor, and nothing beneath it is
\* entered or returned, with recursive set or not.
C20_PlainConfigStops ==
    Located =>
        \A d \in DirsWith("plain") :
            /\ \A i \in 1..Len(AssetPaths) : ~Under(d, AssetPaths[i])
            /\ \A v \in VisitedDirs : Under(d, v) => v = d

C20_Witness ==
    /\ Located
    /\ probe.recursive
    /\ probe.shape.cfg = "none"
    /\ Len(probe.shape.kids) = 1
    /\ probe.shape.kids[1].mid = [cfg |-> "plain", sub |-> "asset"]
    /\ <<"cwd", "build", "a">> \in VisitedDirs
    /\ probe.shape.kids[1].name = "a"
    /\ AssetPaths = <<>>

-----------------------------------------------------------------------------
(* Properties of replace_kuid (ConfigSpec) *)

StagedText(f) == f[<<"cwd", "stage", "config.txt">>].text

HasIdentityLine(lines) == \E k \in 1..Len(lines) : lines[k].cat = "identity"

FirstIdentity(lines) ==
    CHOOSE k \in 1..Len(lines) :
        /\ lines[k].cat = "identity"
        /\ \A j \in 1..(k - 1) : lines[j].cat # "identity"

C19Tag == <<"k","u","i","d"," "," ","<","k","u","i","d",":","2","9","8","4","6","9",
            ":","9","9","9","9","9","9",">">>

\* the text with its first identity line replaced by the dummy tag
WithDummyLine(lines, eol) ==
    Flatten([k \in 1..Len(lines) |->
                (IF k = FirstIdentity(lines) THEN C19Tag ELSE lines[k].text) \o eol])

\* C19: on a config.txt with a line matching the identity pattern, a second
\* replace_kuid leaves the text the first one wrote as it is; when no bare
\* keyword line precedes it, the first identity line of that text is the
\* dummy tag kuid  <kuid:298469:999999> and every other line is unchanged.
C19_RewriteIdempotent ==
    (probe.state = "twice" /\ HasIdentityLine(probe.lines)) =>
        /\ StagedText(probe.fs) = StagedText(probe.before)
        /\ (\A j \in 1..FirstIdentity(probe.lines) : probe.lines[j].cat # "bare") =>
              StagedText(probe.fs) = WithDummyLine(probe.lines, probe.eol)

C19_Witness ==
    /\ probe.state = "twice"
    /\ Len(probe.lines) = 3
    /\ probe.lines[1].cat = "inert"
    /\ probe.lines[2].cat = "identity"
    /\ probe.lines[2].text # C19Tag
    /\ probe.lines[3].cat = "identity"
    /\ probe.lines[3].text # C19Tag
    /\ probe.eol = <<CR, LF>>
    /\ StagedText(probe.fs) = WithDummyLine(probe.lines, probe.eol)

-----------------------------------------------------------------------------
(* Properties of log_validation_output (DiagSpec) *)

\* the label of the first asset, as the mode of display has it
C17Label ==
    IF show = "kuid" THEN <<"<">> \o Asset(1).kuid \o <<">">>
    ELSE <<"[">> \o RelativeDisplay(SubSeq(Asset(1).path, Len(BuildPath) + 1,
                                            Len(Asset(1).path))) \o <<"]">>

C17Severity(prefix) ==
    CASE prefix = "-" -> "Error" [] prefix = "!" -> "Warn"
      [] prefix = "+" -> "Info"  [] prefix = ";" -> "Info"

\* the two calls of a diagnostic: the human-tier call and the Silent record
\* <prefix> <asset-label> : <message>
C17Calls(line) ==
    << [tier |-> IF line.prefix = ";" THEN "Verbose" ELSE "Normal",
        sev  |-> C17Severity(line.prefix),
        text |-> line.message],
       [tier |-> "Silent",
        sev  |-> C17Severity(line.prefix),
        text |-> <<line.prefix, " ">> \o C17Label \o <<" ", ":", " ">> \o line.message] >>

\* C17 as stated: every line that is a diagnostic from its first character on
\* gives its human-tier call and its Silent record, in line order, and every
\* other line gives no call.
C17_AnchoredDiagnostics ==
    probe.state = "logged" =>
        calls = Flatten([k \in 1..Len(probe.lines) |->
                           IF probe.lines[k].cat = "diag" THEN C17Calls(probe.lines[k])
                           ELSE <<>>])

\* C17, amended: the pattern is searched anywhere in the line and allows
\* nothing between the brackets: every line that holds a diagnostic, from its
\* first character on or after other text, gives exactly one human-tier call
\* ('-' Error, '!' Warn, '+' Info at Normal tier, ';' Info at Verbose tier)
\* and one Silent record <prefix> <asset-label> : <message>, in line order;
\* the text in front of the prefix is dropped; lines holding no diagnostic
\* give no call.
C17_Diagnostics ==
    probe.state = "logged" =>
        calls = Flatten([k \in 1..Len(probe.lines) |->
                           IF probe.lines[k].cat = "plain" THEN <<>>
                           ELSE C17Calls(probe.lines[k])])

C17_Witness ==
    /\ probe.state = "logged"
    /\ Len(probe.lines) = 2
    /\ probe.lines[1].cat = "diag"
    /\ probe.lines[1].prefix = ";"
    /\ probe.lines[2].cat = "led"
    /\ probe.lines[2].prefix = "-"
    /\ Len(calls) = 4
    /\ calls[1].tier = "Verbose"
    /\ calls[3].sev = "Error"
    /\ stats.errors = 2

-----------------------------------------------------------------------------
(* Further properties of the run (Spec) *)

\* the replies whose stdout has no summary line at its end: one exits with
\* success, one with failure
UnparsedReplies == {RGarbage, RSilent}

\* C13: when an invocation of the tool, whatever its exit status, writes a
\* stdout whose last line is no summary line, the run ends there with a
\* non-zero exit status: that invocation is the last one of the run, and
\* neither the BUILD line nor the silent OK line is logged.
C13_UnparsedOutputAborts ==
    /\ (trace # <<>> /\ lastReply \in UnparsedReplies) =>
           /\ pc = "panicked"
           /\ exitCode > 0
           /\ trace[Len(trace)].res = "panic"
           /\ NoReportLine
    /\ \A k \in 1..Len(trace) : trace[k].res = "panic" => k = Len(trace)

C13_Witness ==
    /\ lastReply = RSilent
    /\ Len(located) = 2
    /\ Len(trace) = 3
    /\ trace[3].cmd = "commit"
    /\ trace[3].asset = 1
    /\ pc = "panicked"
    /\ calls # <<>>

\* the subcommand that may follow `cmd` for the same asset
C14Follows(cmd) ==
    CASE cmd = "installfrompath" -> {"commit"}
      [] cmd = "commit" -> {"validate"}
      [] OTHER -> {}

\* C14: the invocations of a run are one `version` call, then for the
\* located assets in their order one block each of installfrompath, then
\* possibly commit, then possibly validate; the blocks do not interleave, a
\* block begins only when the asset before has its result, and no other
\* subcommand is invoked; a run that ends with its report has a block for
\* every located asset.
C14_InvocationTrace ==
    /\ \A k \in 1..Len(trace) :
          /\ (k = 1) <=> (trace[k].cmd = "version")
          /\ (k = 1) <=> (trace[k].asset = 0)
          /\ k > 1 => /\ trace[k].cmd \in {"installfrompath", "commit", "validate"}
                      /\ trace[k].asset \in 1..Len(located)
                      /\ Len(outcomes) >= trace[k].asset - 1
          /\ k = 2 => trace[k].asset = 1 /\ trace[k].cmd = "installfrompath"
          /\ (k > 2) =>
                \/ /\ trace[k].asset = trace[k - 1].asset
                   /\ trace[k].cmd \in C14Follows(trace[k - 1].cmd)
                \/ /\ trace[k].asset = trace[k - 1].asset + 1
                   /\ trace[k].cmd = "installfrompath"
    /\ (pc = "done" /\ PreflightOk) =>
          IF located = <<>> THEN Len(trace) = 1
          ELSE trace[Len(trace)].asset = Len(located)

C14_Witness ==
    /\ pc = "done"
    /\ Len(located) = 2
    /\ Len(trace) = 6
    /\ trace[3].cmd = "commit"
    /\ trace[3].res = "err"
    /\ trace[4].asset = 2
    /\ trace[6].cmd = "validate"

\* the directory the copy of an asset is staged in
C15StagePath == IF temp_path.some THEN temp_path.path ELSE TempPath(idx + 1)

\* config.txt of the staged copy names the dummy identity
C15StagedAsDummy ==
    /\ IsFile(fs, Join(C15StagePath, "config.txt"))
    /\ KUID_MATCHER(fs[Join(C15StagePath, "config.txt")].text).ok
    /\ KUID_MATCHER(fs[Join(C15StagePath, "config.txt")].text).kuid = KUID_DUMMY
    /\ HasPrefix(fs[Join(C15StagePath, "config.txt")].text, KUID_DUMMY_TAG)

\* the arguments of the invocations, as C15 has them but for the
\* difference between the dummy identity and the asset's own
C15Arguments ==
    \A k \in 2..Len(trace) :
        IF install
        THEN /\ trace[k].cmd = "installfrompath" =>
                   trace[k].arg = located[trace[k].asset].path
             /\ trace[k].cmd \in {"commit", "validate"} =>
                   trace[k].arg = located[trace[k].asset].kuid
        ELSE /\ trace[k].cmd = "installfrompath" =>
                   /\ trace[k].arg = (IF temp_path.some THEN temp_path.path
                                      ELSE TempPath(trace[k].asset))
                   /\ trace[k].arg # located[trace[k].asset].path
             /\ trace[k].cmd \in {"commit", "validate"} =>
                   trace[k].arg = KUID_DUMMY

\* in install mode nothing is copied or rewritten
C15Untouched ==
    install =>
        /\ temp_dir = None
        /\ fs \in RunTrees
        /\ (located # <<>> /\ fs # DummyFs) => fs = RunFs(Len(located))

\* C15 as stated: in install mode installfrompath is given the asset's own
\* path and commit and validate its own identity, and the file system stays
\* as the run found it; in build mode installfrompath is given the path of
\* the staged copy, never the asset's path, commit and validate are given
\* kuid:298469:999999, never the asset's own identity, and from before
\* installfrompath is invoked config.txt of the staged copy carries the dummy
\* identity tag.
C15_NeverOwnIdentity ==
    /\ C15Arguments
    /\ C15Untouched
    /\ (~install /\ pc \in {"install", "commit", "validate"}) => C15StagedAsDummy
    /\ \A k \in 2..Len(trace) :
          (~install /\ trace[k].cmd \in {"commit", "validate"}) =>
              trace[k].arg # located[trace[k].asset].kuid

\* C15, amended: as stated, but the identity given to commit and validate in
\* build mode differs from the asset's own only when the asset's own is not
\* kuid:298469:999999: for an asset of that identity the tool is given the
\* asset's own identity in build mode too.
C15_StagingMode ==
    /\ C15Arguments
    /\ C15Untouched
    /\ (~install /\ pc \in {"install", "commit", "validate"}) => C15StagedAsDummy
    /\ \A k \in 2..Len(trace) :
          (~install /\ trace[k].cmd \in {"commit", "validate"}) =>
              (trace[k].arg = located[trace[k].asset].kuid
                  <=> located[trace[k].asset].kuid = KUID_DUMMY)

C15_Witness ==
    /\ ~install
    /\ ~temp_path.some
    /\ pc = "validate"
    /\ Len(trace) = 3
    /\ trace[2].arg = TempPath(1)
    /\ trace[3].arg = KUID_DUMMY
    /\ C15StagedAsDummy
    /\ IsFile(fs, Join(Join(TempPath(1), "art"), "t.tga"))

\* the file system the run started on, as the located assets tell it
InitialFs ==
    IF located[1].kuid = KUID_DUMMY THEN DummyFs ELSE RunFs(Len(located))

\* the ephemeral directories that exist
C16Ephemeral == Range(fs[<<"tmp">>].kids)

\* the paths beneath root, relative to it
C16Beneath(root) ==
    {SubSeq(q, Len(root) + 1, Len(q)) : q \in {x \in DOMAIN fs : Under(root, x)}}

\* the directory `stage` holds what `root` holds and nothing else, file for
\* file, config.txt apart
C16HoldsCopy(stage, root) ==
    /\ IsDir(fs, stage)
    /\ C16Beneath(stage) = C16Beneath(root)
    /\ \A r \in C16Beneath(root) :
          /\ fs[stage \o r].kind = fs[root \o r].kind
          /\ (fs[root \o r].kind = "file" /\ r # <<"config.txt">>) =>
                 fs[stage \o r].text = fs[root \o r].text

\* an asset is in its pipeline
C16InPipeline == pc \in {"install", "commit", "validate"}

\* C16: with no staging directory configured, an asset's temporary directory
\* exists during its pipeline and no longer once the pipeline has ended, by
\* success, by a failed stage or by a panic, so that no temporary directory
\* of an earlier asset exists while a later one is processed; a configured
\* staging directory holds, when an asset's pipeline starts, the copy of that
\* asset and nothing it held before, and it is still there after the
\* pipeline and after the run; where the configured path cannot be made a
\* directory the run panics at its first asset, before anything is copied
\* and before any invocation for an asset.
C16_StagingLifetime ==
    /\ temp_path.some => temp_dir = None /\ C16Ephemeral = {}
    /\ install => temp_dir = None /\ C16Ephemeral = {}
    /\ (~temp_path.some /\ ~install) =>
          IF C16InPipeline
          THEN /\ temp_dir = Some(TempPath(idx + 1))
               /\ C16Ephemeral = {TempPath(idx + 1)[2]}
               /\ C16HoldsCopy(TempPath(idx + 1), CurrentAsset.path)
          ELSE /\ temp_dir = None
               /\ C16Ephemeral = {}
    /\ (temp_path.some /\ ~install) =>
          /\ C16InPipeline => C16HoldsCopy(temp_path.path, CurrentAsset.path)
          /\ entered # <<>> =>
                \/ IsDir(fs, temp_path.path)
                \/ /\ ~Creatable(fs, temp_path.path)
                   /\ pc = "panicked"
                   /\ Len(entered) = 1
                   /\ Len(trace) = 1
                   /\ fs = InitialFs

C16_Witness ==
    /\ ~temp_path.some
    /\ ~install
    /\ pc = "panicked"
    /\ idx = 1
    /\ outcomes = <<FALSE>>
    /\ trace[Len(trace)].asset = 2
    /\ trace[Len(trace)].cmd = "commit"
    /\ C16Ephemeral = {}

\* the calls that are printed under the mode of the run
C18Accepted(c) ==
    \/ mode = "Silent" /\ c.tier = "Silent"
    \/ mode = "Normal" /\ c.tier = "Normal"
    \/ mode = "Verbose" /\ c.tier \in {"Normal", "Verbose"}

\* the line a printed call writes
C18Line(c) ==
    IF mode = "Silent" THEN c.text
    ELSE CASE c.sev = "Error" -> <<"ERROR ">> \o c.text
           [] c.sev = "Warn"  -> <<"WARN  ">> \o c.text
           [] c.sev = "Info"  -> <<"INFO  ">> \o c.text

C18Lines(cs) == [k \in 1..Len(cs) |-> C18Line(cs[k])]

\* C18: the lines printed are those of the log calls whose tier the mode
\* accepts, in order: Silent accepts Silent, Normal accepts Normal, Verbose
\* accepts Normal and Verbose; a line carries no label in Silent mode and
\* ERROR, WARN or INFO in front otherwise; and the counters of errors and
\* warnings count every call of severity Error and Warn, printed or not.
\* (The line --version prints is no log call.)
C18_ModeFilter ==
    /\ printed = (IF pc = "returned" THEN << <<"{CARGO_PKG_VERSION}">> >> ELSE <<>>)
                 \o C18Lines(SelectSeq(calls, C18Accepted))
    /\ stats.errors = Cardinality({k \in 1..Len(calls) : calls[k].sev = "Error"})
    /\ stats.warnings = Cardinality({k \in 1..Len(calls) : calls[k].sev = "Warn"})

C18_Witness ==
    /\ mode = "Normal"
    /\ pc = "done"
    /\ \E k \in 1..Len(calls) : calls[k].tier = "Verbose" /\ calls[k].sev = "Error"
    /\ \E k \in 1..Len(calls) : calls[k].tier = "Silent" /\ calls[k].sev = "Warn"
    /\ \E k \in 1..Len(printed) : printed[k][1] = "WARN  "
    /\ stats.errors > Cardinality({k \in 1..Len(printed) : printed[k][1] = "ERROR "})

\* what f holds at root and beneath it
C21Subtree(f, root) == [q \in {x \in DOMAIN f : Under(root, x)} |-> f[q]]

\* C21: in build mode, whatever staging directory is configured, the
\* directory of every asset build_asset was called for holds what it held
\* when the run started, config.txt with its identity line included: the
\* reset of the staging directory, the copy and the rewrite of the identity
\* touch nothing of it.
C21_OriginalUnchanged ==
    (~install /\ entered # <<>>) =>
        \A a \in 1..Len(entered) :
            C21Subtree(fs, entered[a].path) = C21Subtree(InitialFs, entered[a].path)

====
